---- MODULE Spec2Model ----
(***************************************************************************)
(* A model of PaperMate's LLM tool-calling core:                           *)
(*   - the per-job progress registries of TranslationService and           *)
(*     DeepAnalysisService, their background jobs and SSE consumers;       *)
(*   - ReActAgent.run with _call_llm_with_retry, tool execution and        *)
(*     trimming;                                                           *)
(*   - ChatService.stream_response, the streamed tool-calling loop.        *)
(* Each subsystem has its own specification (SpecRegistry, SpecProgress,   *)
(* SpecAgent, SpecChat; SpecLoops runs either loop); the variables of the  *)
(* other subsystems stay at their initial values.                          *)
(***************************************************************************)
EXTENDS Integers, Sequences, FiniteSets, TLC

(***************************************************************************)
(* Bounds of the model.                                                    *)
(***************************************************************************)
\* asyncio.Queue(maxsize=500) in the code; the model scales the capacity down.
MaxQueueSize == 2
\* Events one job publishes before its terminal status (late retry events included).
MaxEvents == 3
\* SSE consumers that may subscribe to the job.
NumConsumers == 2
\* get_progress_queue calls the registry harness makes.
MaxGets == 3
\* Largest max_steps an agent is constructed with (callers pass 2, 3 or 6).
MaxSteps == 2
\* Largest max_tool_messages an agent is constructed with (callers pass 4 or 8).
MaxToolMessages == 2
\* Tool calls the endpoint requests in one round.
MaxCallsPerRound == 2
\* Failed requests (transport errors, error statuses) the endpoint answers in
\* one run of the "rounds" scenario; the "retries" scenario does not limit them.
MaxFailures == 1

\* Largest settings.chat_max_tool_rounds a ChatService runs with (default 10).
MaxToolRounds == 3
\* Longest tool-argument string the endpoint streams, in symbols.
MaxArgLen == 5
\* Most copies of a complete argument string the endpoint streams for one call.
MaxRepeats == 3
\* run_translation_group_retry_task tasks that may be scheduled for the group.
NumRetryTasks == 2

\* react_agent.py: MAX_RETRIES = 5, INITIAL_RETRY_DELAY = 1.0
MAX_RETRIES == 5
INITIAL_RETRY_DELAY == 1
\* chat_service.py: ChatService.MAX_EMPTY_CONTENT_RETRIES = 2
MAX_EMPTY_CONTENT_RETRIES == 2

JobIds == {"job"}
TheJob == "job"
Consumers == 1..NumConsumers
Services == {"translation", "analysis"}
TerminalStatuses == {"succeeded", "failed", "cancelled"}

VARIABLES
    \* ---- progress registries (class attributes) and their users
    service,          \* which service's registry and job this run is about
    progress_queues,  \* cls._progress_queues: job id -> queue object (a handle into heap)
    queue_refs,       \* cls._queue_refs: job id -> reference count
    heap,             \* the asyncio.Queue objects ever created: handle -> queued events
    jobPc,            \* position of the API handler / background task of the job
    jobStatus,        \* PaperTranslation.status / AnalysisJob.status in the database
    published,        \* number of progress events published so far
    cpc,              \* per SSE consumer: "idle", "streaming", "done" ([DONE] sent), "closed"
    cq,               \* per SSE consumer: the queue object it obtained (0: none)
    cSince,           \* history, kept when cGot.traced: per streaming consumer, the number of
                      \* events published before it subscribed
    cGot,             \* history, kept when .traced: per streaming consumer, the numbers of the
                      \* progress events its queue.get() returned
    nGet,             \* history: number of get_progress_queue calls
    nRel,             \* history: number of release_progress calls
    lastOp            \* history: the last registry operation and the state before it

VARIABLES
    \* ---- ReActAgent: the instance
    tool_specs,           \* bool(self.tool_specs): the agent was given tools
    disable_tools,        \* self.disable_tools
    max_steps,            \* self.max_steps
    max_tool_messages,    \* self.max_tool_messages
    force_disable_tools,  \* self._force_disable_tools
    \* ---- ReActAgent.run: the locals of the current run
    aPc,                  \* "idle", "call", "toolless", "got", "tools", "done"
    aSite,                \* which call of _call_llm_with_retry: "single", "loop", "fallback"
    messages,             \* the conversation
    step,                 \* loop index of run()
    attempt,              \* loop index of _call_llm_with_retry
    delay,                \* its backoff delay, in seconds
    use_tools,            \* its local use_tools
    sleeps,               \* the asyncio.sleep delays of the current call, in order
    lastError,            \* the class of the exception the current call's last request raised
    completion,           \* what _call_llm_with_retry returned
    pendingCalls,         \* _execute_tool_calls: the calls not yet executed
    tool_messages,        \* _execute_tool_calls: its local result list
    nextId,               \* the next tool-call id the endpoint hands out
    toolRaised,           \* a tool's execute raised in this run
    retriedToolless,      \* a rejected request of this run was retried without tools
    nFallback,            \* requests sent by the final fallback of this run
    \* ---- ReActAgent: what an observer of the run sees
    lastRequest,          \* the last request sent to the completion endpoint
    nRequests,            \* completion requests sent in this run
    nFailures,            \* requests of this run the endpoint answered with an error
    aResult,              \* how run() ended: [kind, text]
    emptyOnly,            \* every completion of this run so far was empty
    scenario              \* what the endpoint does: "rounds" (tool rounds, few
                          \* failures) or "retries" (no tool calls, any failures)

VARIABLES
    \* ---- ChatService: the instance
    max_tool_rounds,        \* self.max_tool_rounds
    \* ---- ChatService.stream_response: the locals of the generator
    chPc,                   \* "idle", "request", "retry", "tools", "done"
    openai_messages,        \* the conversation sent to the endpoint
    round_num,              \* loop index of the tool-calling loop
    empty_content_retries,  \* corrective retries made so far
    used_tools,             \* a tool-call delta was seen in some round
    full_response,          \* the text of the final answer
    reasoning_buffer,       \* the reasoning of the round (Unbound: never assigned)
    chPending,              \* the tool calls of the round not yet executed
    chNextId,               \* the next tool-call id the endpoint hands out
    \* ---- ChatService: what an observer of the stream sees
    events,                 \* the events yielded so far, in order
    chLastRequest,          \* the last request sent to the endpoint
    chRequests,             \* completion requests sent so far
    chRejections,           \* requests answered with HTTP 400 or 422 so far
    chEmptyOnly,            \* every request so far was answered by an empty stream
    committed,              \* the assistant message committed to the database
    rolledBack,             \* the session was rolled back
    chToolFailed,           \* how a tool call of this stream failed, or "none"
    chShape                 \* the responses so far: "tools" (tool rounds only),
                            \* "empty" (tool rounds, then empty ones),
                            \* "retried_empty" (the toolless retry after HTTP 400 or
                            \* 422 just completed with empty content), "other"

VARIABLES
    \* ---- ChatService.stream_response: the reassembly of one streamed tool call
    tcOriginal,             \* the argument string the model produced
    tcDelivery,             \* how the endpoint streams it: "off", "fragments", "repeats"
    tcDeltas,               \* the function.arguments deltas not yet received
    tcArguments,            \* entry["function"]["arguments"]
    tcReceived              \* history: deltas received so far

VARIABLES
    \* ---- one TranslationGroup and the tasks that translate it
    gRow,                   \* the group's row in the database: status, attempts
    gTask,                  \* per task: its position and its session's copy of the row
    gStarted                \* history: translation attempts started so far

progressVars == <<service, progress_queues, queue_refs, heap, jobPc, jobStatus,
                  published, cpc, cq, cSince, cGot, nGet, nRel, lastOp>>

agentVars == <<tool_specs, disable_tools, max_steps, max_tool_messages,
               force_disable_tools, aPc, aSite, messages, step, attempt, delay,
               use_tools, sleeps, lastError, completion, pendingCalls, tool_messages, nextId,
               toolRaised, retriedToolless, nFallback, lastRequest, nRequests, nFailures, aResult, emptyOnly, scenario>>

chatVars == <<max_tool_rounds, chPc, openai_messages, round_num,
              empty_content_retries, used_tools, full_response, reasoning_buffer,
              chPending, chNextId, events, chLastRequest, chRequests, chRejections,
              chEmptyOnly, committed, rolledBack, chToolFailed, chShape>>

deltaVars == <<tcOriginal, tcDelivery, tcDeltas, tcArguments, tcReceived>>

groupVars == <<gRow, gTask, gStarted>>

vars == <<progressVars, agentVars, chatVars, deltaVars, groupVars>>

\* What the actions of one subsystem leave alone.
nonProgressVars == <<agentVars, chatVars, deltaVars, groupVars>>
nonAgentVars == <<progressVars, chatVars, deltaVars, groupVars>>
nonChatVars == <<progressVars, agentVars, deltaVars, groupVars>>
nonDeltaVars == <<progressVars, agentVars, chatVars, groupVars>>
nonGroupVars == <<progressVars, agentVars, chatVars, deltaVars>>

(***************************************************************************)
(* Dictionary helpers.                                                     *)
(***************************************************************************)
DictPop(d, k) == [x \in (DOMAIN d) \ {k} |-> d[x]]
DictSet(d, k, v) == [x \in (DOMAIN d) \cup {k} |-> IF x = k THEN v ELSE d[x]]
DictGet(d, k, default) == IF k \in DOMAIN d THEN d[k] ELSE default

StatusEvent(s) == [type |-> s, n |-> 0]
ProgressEvent(k) == [type |-> "progress", n |-> k]

NoOp == [op |-> "none", preQ |-> <<>>, preR |-> <<>>, pre |-> <<>>, preHeap |-> 0,
         data |-> StatusEvent("none"), suspended |-> FALSE]

\* What a history record keeps of a registry call: the operation, the
\* registry and the job's queue before it, the event, whether a put suspended.
OpRecord(op, id, data, suspended) ==
    [op |-> op,
     preQ |-> progress_queues,
     preR |-> queue_refs,
     pre |-> IF id \in DOMAIN progress_queues THEN heap[progress_queues[id]] ELSE <<>>,
     preHeap |-> Len(heap),
     data |-> data,
     suspended |-> suspended]

(***************************************************************************)
(* The registry's class methods.  Each takes the registry before the call  *)
(* and returns the registry after it, as a record                          *)
(*   [q |-> _progress_queues, r |-> _queue_refs, h |-> queue objects].     *)
(* publish_progress also reports whether its queue.put would suspend.      *)
(***************************************************************************)
Registry == [q |-> progress_queues, r |-> queue_refs, h |-> heap]

\* Mutant: the reference count is not incremented for an existing queue.
get_progress_queue_noincr(reg, id) ==
    IF id \notin DOMAIN reg.q
    THEN [q |-> DictSet(reg.q, id, Len(reg.h) + 1),
          r |-> DictSet(reg.r, id, 1),
          h |-> Append(reg.h, <<>>)]
    ELSE reg

get_progress_queue(reg, id) ==
    LET created == id \notin DOMAIN reg.q
        q1 == IF created THEN DictSet(reg.q, id, Len(reg.h) + 1) ELSE reg.q
        r0 == IF created THEN DictSet(reg.r, id, 0) ELSE reg.r
        h1 == IF created THEN Append(reg.h, <<>>) ELSE reg.h
    IN  [q |-> q1, r |-> DictSet(r0, id, DictGet(r0, id, 0) + 1), h |-> h1]

\* Mutant: a full queue is not drained before the put, so the put finds the
\* queue full: the producer suspends and the event waits beyond the capacity.
publish_progress_nodrop(reg, id, data) ==
    IF id \notin DOMAIN reg.q
    THEN [q |-> reg.q, r |-> reg.r, h |-> reg.h, suspends |-> FALSE]
    ELSE [q |-> reg.q, r |-> reg.r,
          h |-> [reg.h EXCEPT ![reg.q[id]] = Append(@, data)],
          suspends |-> Len(reg.h[reg.q[id]]) >= MaxQueueSize]

publish_progress(reg, id, data) ==
    IF id \notin DOMAIN reg.q
    THEN [q |-> reg.q, r |-> reg.r, h |-> reg.h, suspends |-> FALSE]
    ELSE LET hd == reg.q[id]
             queue == reg.h[hd]
             \* if queue.full(): queue.get_nowait()
             drained == IF Len(queue) >= MaxQueueSize THEN Tail(queue) ELSE queue
         IN  \* await queue.put(data): suspends only on a full queue
             [q |-> reg.q, r |-> reg.r,
              h |-> [reg.h EXCEPT ![hd] = Append(drained, data)],
              suspends |-> Len(drained) >= MaxQueueSize]

\* Mutant: the queue is torn down by the first release, whatever the count.
release_progress_eager(reg, id) ==
    [q |-> DictPop(reg.q, id), r |-> DictPop(reg.r, id), h |-> reg.h]

release_progress(reg, id) ==
    IF id \in DOMAIN reg.r
    THEN IF reg.r[id] - 1 <= 0
         THEN [q |-> DictPop(reg.q, id), r |-> DictPop(reg.r, id), h |-> reg.h]
         ELSE [q |-> reg.q, r |-> DictSet(reg.r, id, reg.r[id] - 1), h |-> reg.h]
    ELSE reg

cleanup_progress(reg, id) ==
    [q |-> DictPop(reg.q, id), r |-> DictPop(reg.r, id), h |-> reg.h]

SetRegistry(reg) ==
    /\ progress_queues' = reg.q
    /\ queue_refs' = reg.r
    /\ heap' = reg.h

(***************************************************************************)
(* Initial state of the registries: empty class-level dictionaries.        *)
(***************************************************************************)
RegistriesEmpty(traced) ==
    /\ progress_queues = <<>>
    /\ queue_refs = <<>>
    /\ heap = <<>>
    /\ jobPc = "none"
    /\ jobStatus = "none"
    /\ published = 0
    /\ cpc = [c \in Consumers |-> "idle"]
    /\ cq = [c \in Consumers |-> 0]
    /\ cSince = [c \in Consumers |-> 0]
    /\ cGot = [traced |-> traced, got |-> [c \in Consumers |-> {}]]
    /\ nGet = 0
    /\ nRel = 0
    /\ lastOp = NoOp

ProgressIdle == RegistriesEmpty(FALSE)

InitProgress ==
    /\ service \in Services
    /\ ProgressIdle

\* The same initial state, with the deliveries recorded.
InitDelivery ==
    /\ service \in Services
    /\ RegistriesEmpty(TRUE)

(***************************************************************************)
(* ReActAgent: messages, completions, endpoint errors.                     *)
(***************************************************************************)
Msg(role, content, tool_calls, tool_call_id) ==
    [role |-> role, content |-> content, tool_calls |-> tool_calls,
     tool_call_id |-> tool_call_id]

SystemMsg == Msg("system", "system_prompt", <<>>, 0)
UserMsg == Msg("user", "user_prompt", <<>>, 0)

\* A completion: the ids of its tool calls, its message content, and its
\* reasoning_content ("r_final" carries a final-answer marker, "r_plain"
\* does not).  " " stands for content that is only white space.
NoCompletion == [kind |-> "none", tool_calls |-> <<>>, content |-> "", reasoning |-> ""]
Resp(tool_calls, content, reasoning) ==
    [kind |-> "resp", tool_calls |-> tool_calls, content |-> content,
     reasoning |-> reasoning]

Reasonings == {"", "r_final", "r_plain"}
\* Completions without tool calls.
TextResponses ==
    {Resp(<<>>, c, r) : c \in {"", " ", "answer", " answer "}, r \in Reasonings}
\* The completion with empty content, no reasoning and no tool calls.
EmptyResponse == Resp(<<>>, "", "")
\* Completions with n tool calls, ids handed out from `first` on.
ToolResponses(first) ==
    {Resp([i \in 1..n |-> first + i - 1], c, "") :
        n \in 1..MaxCallsPerRound, c \in {"", "partial"}}

\* An exception of the completion endpoint: its class, and whether its text
\* contains one of _TOOLING_ERROR_HINTS.
\*   conn: APIConnectionError        rate: RateLimitError
\*   status429 / status4xx (400, 404, 422) / status500: other APIStatusError
\*   other: any other exception
ErrClasses == {"conn", "rate", "status429", "status4xx", "status500", "other"}
EndpointErrors == [class : ErrClasses, hint : BOOLEAN]
NoError == "none"

\* str.strip()
Strip(text) ==
    CASE text = " " -> ""
      [] text = " answer " -> "answer"
      [] OTHER -> text

\* _extract_final_from_reasoning: the text after a <final> tag or a
\* "Final Answer:" marker, or "".
extract_final_from_reasoning(reasoning) ==
    IF reasoning = "r_final" THEN "final" ELSE ""

\* _extract_content_from_message
extract_content_from_message(msg) ==
    IF Strip(msg.content) # ""
    THEN Strip(msg.content)
    ELSE IF Strip(msg.reasoning) # ""
         THEN extract_final_from_reasoning(msg.reasoning)
         ELSE ""

\* _extract_content_from_completion: the message first, then the raw dump.
extract_content_from_completion(c) ==
    IF extract_content_from_message(c) # ""
    THEN extract_content_from_message(c)
    ELSE LET content == IF c.content = "" /\ c.reasoning # ""
                        THEN extract_final_from_reasoning(c.reasoning)
                        ELSE c.content
         IN  Strip(content)

\* _should_use_tools
should_use_tools ==
    tool_specs /\ ~disable_tools /\ ~force_disable_tools

\* _is_tooling_incompatibility_error
is_tooling_incompatibility_error(e) ==
    e.hint \/ e.class = "status4xx"

IsToolMsg(m) == m.role = "tool"
IsNotToolMsg(m) == m.role # "tool"
ToolIndices(msgs) == {i \in 1..Len(msgs) : msgs[i].role = "tool"}

\* Mutant: the messages before keep_from are dropped whole, assistant
\* messages included.
trim_tool_messages_dropall(msgs, maxTool) ==
    IF Cardinality(ToolIndices(msgs)) <= maxTool
    THEN msgs
    ELSE LET idx == ToolIndices(msgs)
             keep_from == CHOOSE i \in idx :
                              Cardinality({j \in idx : j >= i}) = maxTool
         IN  <<msgs[1], msgs[2]>> \o SubSeq(msgs, keep_from, Len(msgs))

\* Mutant: the oldest tool messages are kept instead of the most recent.
trim_tool_messages_oldest(msgs, maxTool) ==
    IF Cardinality(ToolIndices(msgs)) <= maxTool \/ maxTool = 0
    THEN msgs
    ELSE LET idx == ToolIndices(msgs)
             cut == CHOOSE i \in idx : Cardinality({j \in idx : j <= i}) = maxTool
         IN  SubSeq(msgs, 1, cut)
                 \o SelectSeq(SubSeq(msgs, cut + 1, Len(msgs)), IsNotToolMsg)

\* _trim_tool_messages: tool_indices[-max_tool_messages] (index 0, the
\* first tool message, when max_tool_messages is 0).
trim_tool_messages(msgs, maxTool) ==
    IF Cardinality(ToolIndices(msgs)) <= maxTool
    THEN msgs
    ELSE LET idx == ToolIndices(msgs)
             keep_from == IF maxTool = 0
                          THEN CHOOSE i \in idx : \A j \in idx : i <= j
                          ELSE CHOOSE i \in idx :
                                   Cardinality({j \in idx : j >= i}) = maxTool
             non_tool == SelectSeq(SubSeq(msgs, 1, keep_from - 1), IsNotToolMsg)
             recent == SubSeq(msgs, keep_from, Len(msgs))
         IN  non_tool \o recent

\* _message_to_dict for a completion with tool calls: the content is kept
\* only when it is truthy.
message_to_dict(c) == Msg("assistant", c.content, c.tool_calls, 0)

NoRequest == [messages |-> <<>>, tools |-> FALSE]
NoResult == [kind |-> "none", text |-> ""]
Returned(text) == [kind |-> "returned", text |-> text]

\* The agent before any run() call (fields of __init__ aside); pc is "idle",
\* or "off" in a specification about another subsystem.
AgentLocals(pc) ==
    /\ aPc = pc
    /\ aSite = "single"
    /\ messages = <<>>
    /\ step = 0
    /\ attempt = 0
    /\ delay = INITIAL_RETRY_DELAY
    /\ use_tools = FALSE
    /\ sleeps = <<>>
    /\ lastError = NoError
    /\ completion = NoCompletion
    /\ pendingCalls = <<>>
    /\ tool_messages = <<>>
    /\ nextId = 1
    /\ toolRaised = FALSE
    /\ retriedToolless = FALSE
    /\ nFallback = 0
    /\ lastRequest = NoRequest
    /\ nRequests = 0
    /\ nFailures = 0
    /\ aResult = NoResult
    /\ emptyOnly = TRUE
    /\ force_disable_tools = FALSE

\* The agent part of a specification about another subsystem.
AgentOff ==
    /\ tool_specs = TRUE
    /\ disable_tools = FALSE
    /\ max_steps = MaxSteps
    /\ max_tool_messages = MaxToolMessages
    /\ scenario = "rounds"
    /\ AgentLocals("off")

\* ReActAgent.__init__: with or without tools, max_steps and
\* max_tool_messages as the caller passes them.
InitAgent ==
    /\ tool_specs \in BOOLEAN
    /\ disable_tools \in BOOLEAN
    /\ max_steps \in 1..MaxSteps
    /\ max_tool_messages \in 1..MaxToolMessages
    /\ (~(tool_specs /\ ~disable_tools)
            => max_steps = MaxSteps /\ max_tool_messages = MaxToolMessages)
    /\ scenario \in {"rounds", "retries"}
    /\ (scenario = "retries" => max_steps = MaxSteps /\ max_tool_messages = MaxToolMessages)
    /\ AgentLocals("idle")

(***************************************************************************)
(* ChatService: streamed rounds, events, fallback texts.                   *)
(***************************************************************************)
\* reasoning_buffer before its first assignment.
Unbound == "<unbound>"

\* The corrective user message of an empty-content retry.
RetryPrompt == Msg("user", "retry_prompt", <<>>, 0)
\* The message get_signal_injection returns for a detected signal.
SignalInjection == Msg("system", "signal_prompt", <<>>, 0)

TokenEvent(text) == [type |-> "token", content |-> text]
ErrorEvent(message) == [type |-> "error", content |-> message]
ToolCallEvent(status) == [type |-> "tool_call", content |-> status]

\* The contents of a sequence of events, concatenated in order.
RECURSIVE JoinContents(_)
JoinContents(evs) ==
    IF evs = <<>> THEN "" ELSE Head(evs).content \o JoinContents(Tail(evs))

ExceededRounds == "Exceeded maximum tool call rounds."
GenericFallback == "generic_fallback"

NoCommit == [done |-> FALSE, text |-> ""]
Commit(text) == [done |-> TRUE, text |-> text]

\* _strip_thinking: reasoning blocks removed, the rest stripped.
strip_thinking(text) ==
    IF text = "<think>x</think>" THEN "" ELSE Strip(text)

\* ChatService._extract_from_reasoning: a <final> tag or a final marker, else
\* a substantial block or paragraph, else "".
extract_from_reasoning(reasoning) ==
    CASE reasoning = "r_final" -> "final"
      [] reasoning = "r_para" -> "paragraph"
      [] OTHER -> ""

\* _collect_tool_outputs: the non-empty tool outputs of the conversation.
collect_tool_outputs(msgs) ==
    SelectSeq(msgs, LAMBDA m : m.role = "tool" /\ Strip(m.content) # "")

\* _fallback_from_tools: the reason, with an excerpt of the tool outputs
\* when there are any.
fallback_from_tools(msgs, reason) ==
    IF collect_tool_outputs(msgs) = <<>>
    THEN reason \o ":retry_later"
    ELSE reason \o ":tool_excerpt"

\* One tool call of a streamed round as the deltas assemble it: its id
\* (0: none), whether its name is a known tool, whether its arguments parse.
ChatCall(id, name_ok, args_ok) == [id |-> id, name_ok |-> name_ok, args_ok |-> args_ok]
CallKinds == {"ok", "unknown", "noid", "badargs"}
MakeCall(kind, id) ==
    ChatCall(IF kind = "noid" THEN 0 ELSE id, kind # "unknown", kind # "badargs")

\* A stream read to [DONE]: the content token, the reasoning, the tool calls.
Stream(content, reasoning, calls) ==
    [content |-> content, reasoning |-> reasoning, calls |-> calls]
ChatContents == {"", " ", "answer", "<think>x</think>"}
ChatReasonings == {"", "r_final", "r_para", "r_plain"}
TextStreams == {Stream(c, r, <<>>) : c \in ChatContents, r \in ChatReasonings}
\* The stream with empty content, no reasoning and no tool calls.
EmptyStream == Stream("", "", <<>>)
ToolStreams(first) ==
    UNION {{Stream(c, "", [i \in 1..n |-> MakeCall(k[i], first + i - 1)]) :
                c \in {"", "partial"}, k \in [1..n -> CallKinds]} :
           n \in 1..MaxCallsPerRound}

\* HTTP statuses raise_for_status may raise for.
HttpStatuses == {400, 422, 401, 429, 500}
http_error_detail(status) ==
    CASE status = 429 -> "http429"
      [] status = 401 -> "http401"
      [] status = 500 -> "http500"
      [] OTHER -> "http_other"

ChatLocals(pc) ==
    /\ chPc = pc
    /\ openai_messages = <<>>
    /\ round_num = 0
    /\ empty_content_retries = 0
    /\ used_tools = FALSE
    /\ full_response = ""
    /\ reasoning_buffer = Unbound
    /\ chPending = <<>>
    /\ chNextId = 1
    /\ events = <<>>
    /\ chLastRequest = NoRequest
    /\ chRequests = 0
    /\ chRejections = 0
    /\ chEmptyOnly = TRUE
    /\ committed = NoCommit
    /\ rolledBack = FALSE
    /\ chToolFailed = "none"
    /\ chShape = "tools"

\* The chat part of a specification about another subsystem.
ChatOff ==
    /\ max_tool_rounds = MaxToolRounds
    /\ ChatLocals("off")

\* ChatService.__init__: max_tool_rounds from the settings.
InitChat ==
    /\ max_tool_rounds \in 0..MaxToolRounds
    /\ ChatLocals("idle")

(***************************************************************************)
(* The reassembly of a streamed tool call's arguments.  A string is a      *)
(* sequence of symbols: braces, a key with its colon, a digit, a blank.    *)
(***************************************************************************)
Symbols == {"{", "}", "k:", "1", " "}
Strings(n) == UNION {[1..k -> Symbols] : k \in 0..n}

\* str.strip(), as json.loads ignores surrounding white space.
RECURSIVE TrimLeft(_)
TrimLeft(s) == IF s # <<>> /\ Head(s) = " " THEN TrimLeft(Tail(s)) ELSE s
RECURSIVE TrimRight(_)
TrimRight(s) ==
    IF s # <<>> /\ s[Len(s)] = " " THEN TrimRight(SubSeq(s, 1, Len(s) - 1)) ELSE s
Trim(s) == TrimRight(TrimLeft(s))

IsNumber(s) == s # <<>> /\ \A i \in 1..Len(s) : s[i] = "1"

\* A JSON value without surrounding white space: a number, or an object
\* that is empty or holds one member.
RECURSIVE IsValue(_)
IsValue(s) ==
    \/ IsNumber(s)
    \/ /\ Len(s) >= 2
       /\ s[1] = "{"
       /\ s[Len(s)] = "}"
       /\ LET inner == Trim(SubSeq(s, 2, Len(s) - 1))
          IN  \/ inner = <<>>
              \/ inner[1] = "k:" /\ IsValue(TrimLeft(Tail(inner)))

IsObject(s) == IsValue(s) /\ s[1] = "{"

\* json.loads(s) does not raise.
IsJson(s) == IsValue(Trim(s))

\* Mutant: every delta is appended.
merge_arguments_append(existing, delta) ==
    IF delta = <<>> THEN existing ELSE existing \o delta

\* stream_response, one function.arguments delta of a call index: a
\* complete JSON delta replaces complete JSON, anything else is appended.
merge_arguments(existing, delta) ==
    IF delta = <<>> THEN existing
    ELSE IF existing = <<>> THEN delta
    ELSE IF IsJson(existing) /\ IsJson(delta) THEN delta
    ELSE existing \o delta

\* The string cut after the positions of `cuts`.
RECURSIVE Split(_, _)
Split(s, cuts) ==
    IF cuts = {} THEN <<s>>
    ELSE LET c == CHOOSE x \in cuts : \A y \in cuts : x <= y
         IN  <<SubSeq(s, 1, c)>>
             \o Split(SubSeq(s, c + 1, Len(s)), {x - c : x \in cuts \ {c}})

\* No tool call is being streamed.
DeltaOff ==
    /\ tcOriginal = <<>>
    /\ tcDelivery = "off"
    /\ tcDeltas = <<>>
    /\ tcArguments = <<>>
    /\ tcReceived = 0

\* The model has produced a JSON argument string; the endpoint streams it
\* as consecutive fragments, or whole several times.
InitDelta ==
    /\ tcOriginal \in {s \in Strings(MaxArgLen) : IsJson(s)}
    /\ tcDelivery \in {"fragments", "repeats"}
    /\ IF tcDelivery = "fragments"
       THEN tcDeltas \in {Split(tcOriginal, cuts) :
                             cuts \in SUBSET (1..(Len(tcOriginal) - 1))}
       ELSE tcDeltas \in {[i \in 1..n |-> tcOriginal] : n \in 2..MaxRepeats}
    /\ tcArguments = <<>>
    /\ tcReceived = 0

(***************************************************************************)
(* TranslationGroup: the row and the tasks' sessions.                      *)
(***************************************************************************)
\* Task 0 is the run_translation job; the others are
\* run_translation_group_retry_task tasks.
MainTask == 0
RetryTasks == 1..NumRetryTasks
GroupTasks == {MainTask} \cup RetryTasks

\* TranslationGroup as _get_or_create_section_groups creates it: the column
\* defaults status="queued", attempts=0.
NewGroup == [status |-> "queued", attempts |-> 0]

TaskState(pc, row) == [pc |-> pc, status |-> row.status, attempts |-> row.attempts]

\* No group is being translated.
GroupOff ==
    /\ gRow = NewGroup
    /\ gTask = [t \in GroupTasks |-> TaskState("off", NewGroup)]
    /\ gStarted = 0

\* The job has created the section's groups and holds them in its session;
\* no retry has been requested.
InitGroup ==
    /\ gRow = NewGroup
    /\ gTask = [t \in GroupTasks |->
                   TaskState(IF t = MainTask THEN "loaded" ELSE "idle", NewGroup)]
    /\ gStarted = 0

(***************************************************************************)
(* SpecRegistry: the three class methods called directly, as a unit test   *)
(* of the registry would: subscribe, publish, and release by a holder of   *)
(* a reference (a release is always paired with an earlier subscribe).     *)
(***************************************************************************)
RegGet ==
    /\ nGet < MaxGets
    /\ SetRegistry(get_progress_queue(Registry, TheJob))
    /\ nGet' = nGet + 1
    /\ lastOp' = OpRecord("get", TheJob, StatusEvent("none"), FALSE)
    /\ UNCHANGED <<service, jobPc, jobStatus, published, cpc, cq, cSince, cGot, nRel,
                   nonProgressVars>>

RegRelease ==
    /\ nRel < nGet
    /\ SetRegistry(release_progress(Registry, TheJob))
    /\ nRel' = nRel + 1
    /\ lastOp' = OpRecord("release", TheJob, StatusEvent("none"), FALSE)
    /\ UNCHANGED <<service, jobPc, jobStatus, published, cpc, cq, cSince, cGot, nGet,
                   nonProgressVars>>

RegPublish ==
    /\ published < MaxEvents + MaxQueueSize
    /\ LET data == ProgressEvent(published + 1)
           res == publish_progress(Registry, TheJob, data)
       IN  /\ SetRegistry(res)
           /\ lastOp' = OpRecord("publish", TheJob, data, res.suspends)
    /\ published' = published + 1
    /\ UNCHANGED <<service, jobPc, jobStatus, cpc, cq, cSince, cGot, nGet, nRel,
                   nonProgressVars>>

NextRegistry == RegGet \/ RegRelease \/ RegPublish

InitSpecProgress ==
    /\ InitProgress
    /\ AgentOff
    /\ ChatOff
    /\ DeltaOff
    /\ GroupOff

SpecRegistry == InitSpecProgress /\ [][NextRegistry]_vars

(***************************************************************************)
(* SpecProgress: one job of the chosen service, its background task and    *)
(* its SSE consumers.                                                      *)
(***************************************************************************)

\* start_translation / run_analysis: the row is committed as "queued", the
\* handler subscribes once and schedules the background task.
StartJob ==
    /\ jobPc = "none"
    /\ jobStatus' = "queued"
    /\ SetRegistry(get_progress_queue(Registry, TheJob))
    /\ nGet' = nGet + 1
    /\ lastOp' = OpRecord("get", TheJob, StatusEvent("none"), FALSE)
    /\ jobPc' = "scheduled"
    /\ UNCHANGED <<service, published, cpc, cq, cSince, cGot, nRel,
                   nonProgressVars>>

\* run_translation / DeepAnalysisService.run: status "running", published.
JobRunning ==
    /\ jobPc = "scheduled"
    /\ jobStatus' = "running"
    /\ LET data == StatusEvent("running")
           res == publish_progress(Registry, TheJob, data)
       IN  /\ SetRegistry(res)
           /\ lastOp' = OpRecord("publish", TheJob, data, res.suspends)
    /\ jobPc' = "working"
    /\ UNCHANGED <<service, published, cpc, cq, cSince, cGot, nGet, nRel,
                   nonProgressVars>>

\* One progress event of the running job (section / dimension progress,
\* tool-call events of the agent's on_progress callback).
JobPublish ==
    /\ jobPc = "working"
    /\ published < MaxEvents
    /\ LET data == ProgressEvent(published + 1)
           res == publish_progress(Registry, TheJob, data)
       IN  /\ SetRegistry(res)
           /\ lastOp' = OpRecord("publish", TheJob, data, res.suspends)
    /\ published' = published + 1
    /\ UNCHANGED <<service, jobPc, jobStatus, cpc, cq, cSince, cGot, nGet, nRel,
                   nonProgressVars>>

\* The terminal status is committed to the database (an await follows).
JobCommitTerminal ==
    /\ jobPc = "working"
    /\ jobStatus' \in {"succeeded", "failed"}
    /\ jobPc' = "committed"
    /\ UNCHANGED <<service, progress_queues, queue_refs, heap, published, cpc, cq, cSince, cGot,
                   nGet, nRel, lastOp,
                   nonProgressVars>>

\* After the commit: the terminal status is published; run_translation
\* publishes an error event too when it failed, and its finally clause
\* calls cleanup_progress.  DeepAnalysisService has no cleanup.
JobFinish ==
    /\ jobPc = "committed"
    /\ LET data == StatusEvent(jobStatus)
           res1 == publish_progress(Registry, TheJob, data)
           res2 == IF service = "translation" /\ jobStatus = "failed"
                   THEN publish_progress(res1, TheJob, StatusEvent("error"))
                   ELSE res1
       IN  IF service = "translation"
           THEN /\ SetRegistry(cleanup_progress(res2, TheJob))
                /\ lastOp' = [OpRecord("cleanup", TheJob, data, FALSE) EXCEPT
                                 !.pre = IF TheJob \in DOMAIN res2.q
                                         THEN res2.h[res2.q[TheJob]] ELSE <<>>]
           ELSE /\ SetRegistry(res2)
                /\ lastOp' = OpRecord("publish", TheJob, data, res2.suspends)
    /\ jobPc' = "finished"
    /\ UNCHANGED <<service, jobStatus, published, cpc, cq, cSince, cGot, nGet, nRel,
                   nonProgressVars>>

\* retry_group (translation only): a later task of the same translation id
\* publishes tool-call progress through the same registry.
RetryGroupPublish ==
    /\ service = "translation"
    /\ jobPc \in {"working", "committed", "finished"}
    /\ published < MaxEvents
    /\ LET data == ProgressEvent(published + 1)
           res == publish_progress(Registry, TheJob, data)
       IN  /\ SetRegistry(res)
           /\ lastOp' = OpRecord("publish", TheJob, data, res.suspends)
    /\ published' = published + 1
    /\ UNCHANGED <<service, jobPc, jobStatus, cpc, cq, cSince, cGot, nGet, nRel,
                   nonProgressVars>>

\* stream_translation / stream_analysis: the handler subscribes before the
\* generator starts.
Subscribe(c) ==
    /\ jobPc # "none"
    /\ cpc[c] = "idle"
    /\ LET res == get_progress_queue(Registry, TheJob)
       IN  /\ SetRegistry(res)
           /\ cq' = [cq EXCEPT ![c] = res.q[TheJob]]
    /\ cSince' = IF cGot.traced THEN [cSince EXCEPT ![c] = published] ELSE cSince
    /\ UNCHANGED cGot
    /\ nGet' = nGet + 1
    /\ lastOp' = OpRecord("get", TheJob, StatusEvent("none"), FALSE)
    /\ cpc' = [cpc EXCEPT ![c] = "streaming"]
    /\ UNCHANGED <<service, jobPc, jobStatus, published, nRel,
                   nonProgressVars>>

\* generate(): queue.get() returned an event, which is yielded.
ConsumerGet(c) ==
    /\ cpc[c] = "streaming"
    /\ heap[cq[c]] # <<>>
    /\ heap' = [heap EXCEPT ![cq[c]] = Tail(@)]
    /\ lastOp' = OpRecord("queue_get", TheJob, Head(heap[cq[c]]), FALSE)
    /\ cGot' = IF cGot.traced /\ Head(heap[cq[c]]).type = "progress"
               THEN [cGot EXCEPT !.got[c] = @ \cup {Head(heap[cq[c]]).n}]
               ELSE cGot
    /\ UNCHANGED <<service, progress_queues, queue_refs, jobPc, jobStatus, published,
                   cpc, cq, cSince, nGet, nRel,
                   nonProgressVars>>

\* generate(): the 15 s wait timed out on an empty queue and the job is not
\* terminal: a ping is yielded.
ConsumerPing(c) ==
    /\ cpc[c] = "streaming"
    /\ heap[cq[c]] = <<>>
    /\ jobStatus \notin TerminalStatuses
    /\ UNCHANGED vars

\* Mutant: the stream ends on any timeout with an empty queue, whatever the
\* status of the job.
ConsumerFinish_early(c) ==
    /\ cpc[c] = "streaming"
    /\ heap[cq[c]] = <<>>
    /\ SetRegistry(release_progress(Registry, TheJob))
    /\ nRel' = nRel + 1
    /\ lastOp' = OpRecord("release", TheJob, StatusEvent("none"), FALSE)
    /\ cpc' = [cpc EXCEPT ![c] = "done"]
    /\ cSince' = [cSince EXCEPT ![c] = 0]
    /\ cGot' = [cGot EXCEPT !.got[c] = {}]
    /\ UNCHANGED <<service, jobPc, jobStatus, published, cq, nGet,
                   nonProgressVars>>

\* generate(): the wait timed out, the job is terminal and the queue is
\* empty: the loop breaks and the finally clause releases.
ConsumerFinish(c) ==
    /\ cpc[c] = "streaming"
    /\ heap[cq[c]] = <<>>
    /\ jobStatus \in TerminalStatuses
    /\ SetRegistry(release_progress(Registry, TheJob))
    /\ nRel' = nRel + 1
    /\ lastOp' = OpRecord("release", TheJob, StatusEvent("none"), FALSE)
    /\ cpc' = [cpc EXCEPT ![c] = "done"]
    /\ cSince' = [cSince EXCEPT ![c] = 0]
    /\ cGot' = [cGot EXCEPT !.got[c] = {}]
    /\ UNCHANGED <<service, jobPc, jobStatus, published, cq, nGet,
                   nonProgressVars>>

\* The client disconnects: the generator is closed and its finally clause
\* releases; [DONE] is not emitted.
ConsumerDisconnect(c) ==
    /\ cpc[c] = "streaming"
    /\ SetRegistry(release_progress(Registry, TheJob))
    /\ nRel' = nRel + 1
    /\ lastOp' = OpRecord("release", TheJob, StatusEvent("none"), FALSE)
    /\ cpc' = [cpc EXCEPT ![c] = "closed"]
    /\ cSince' = [cSince EXCEPT ![c] = 0]
    /\ cGot' = [cGot EXCEPT !.got[c] = {}]
    /\ UNCHANGED <<service, jobPc, jobStatus, published, cq, nGet,
                   nonProgressVars>>

NextProgress ==
    \/ StartJob
    \/ JobRunning
    \/ JobPublish
    \/ JobCommitTerminal
    \/ JobFinish
    \/ RetryGroupPublish
    \/ \E c \in Consumers : Subscribe(c)
    \/ \E c \in Consumers : ConsumerGet(c)
    \/ \E c \in Consumers : ConsumerPing(c)
    \/ \E c \in Consumers : ConsumerFinish(c)
    \/ \E c \in Consumers : ConsumerDisconnect(c)

SpecProgress == InitSpecProgress /\ [][NextProgress]_vars

\* The event loop runs a connected generator's loop: an event waiting in its
\* queue is yielded, and the 15 s timeout fires on an empty queue.
ConsumerLoop(c) == ConsumerGet(c) \/ ConsumerFinish(c)

FairConsumers == \A c \in Consumers : WF_vars(ConsumerLoop(c))

SpecProgressFair == SpecProgress /\ FairConsumers

InitSpecDelivery ==
    /\ InitDelivery
    /\ AgentOff
    /\ ChatOff
    /\ DeltaOff
    /\ GroupOff

SpecDelivery == InitSpecDelivery /\ [][NextProgress]_vars

(***************************************************************************)
(* Claims about the progress registries.                                   *)
(***************************************************************************)
Registered(id) == id \in DOMAIN progress_queues

\* C6: after N get_progress_queue calls and k release_progress calls the
\* queue of the id is still registered when k < N, and the queue and its
\* refcount entry are both gone when k = N; a publish_progress on an id
\* with no registered queue creates no queue and leaves the registry as it
\* was.
C6_RefcountLifecycle ==
    /\ nRel < nGet => Registered(TheJob) /\ TheJob \in DOMAIN queue_refs
    /\ nRel = nGet => ~Registered(TheJob) /\ TheJob \notin DOMAIN queue_refs
    /\ (lastOp.op = "publish" /\ TheJob \notin DOMAIN lastOp.preQ)
          => /\ progress_queues = lastOp.preQ
             /\ queue_refs = lastOp.preR
             /\ Len(heap) = lastOp.preHeap
             /\ ~lastOp.suspended

\* C6 witness: two subscriptions, and the second release has just removed
\* the queue that was registered before it.
C6_Witness ==
    /\ nGet = 2
    /\ nRel = 2
    /\ lastOp.op = "release"
    /\ TheJob \in DOMAIN lastOp.preQ
    /\ ~Registered(TheJob)

\* C7: a publish_progress on a queue holding its full capacity removes
\* exactly the oldest event and appends the new one at the tail, without
\* suspending the producer; no queue ever holds more than its capacity.
C7_DropOldest ==
    /\ \A h \in 1..Len(heap) : Len(heap[h]) <= MaxQueueSize
    /\ lastOp.op = "publish" => ~lastOp.suspended
    /\ (/\ lastOp.op = "publish"
        /\ TheJob \in DOMAIN lastOp.preQ
        /\ Len(lastOp.pre) = MaxQueueSize)
          => heap[lastOp.preQ[TheJob]] = Append(Tail(lastOp.pre), lastOp.data)

\* C7 witness: a publish has just hit a full queue.
C7_Witness ==
    /\ lastOp.op = "publish"
    /\ TheJob \in DOMAIN lastOp.preQ
    /\ Len(lastOp.pre) = MaxQueueSize
    /\ lastOp.data.type = "progress"

\* C8 (as claimed): a queue is never removed from the registry while a
\* consumer that obtained it through get_progress_queue has not yet called
\* release_progress: every streaming consumer's queue is still the one
\* registered for the job, with a positive reference count.
C8_NoRemovalWhileHeld ==
    \A c \in Consumers :
        cpc[c] = "streaming"
            => /\ Registered(TheJob)
               /\ progress_queues[TheJob] = cq[c]
               /\ DictGet(queue_refs, TheJob, 0) >= 1

\* C9 (as claimed): once the job's task has finished in a terminal status
\* and no SSE consumer is connected any more, the registry holds neither a
\* queue nor a refcount entry for the job.
C9_ReleasedAfterJobAndConsumers ==
    (/\ jobPc = "finished"
     /\ jobStatus \in TerminalStatuses
     /\ \A c \in Consumers : cpc[c] # "streaming")
        => /\ TheJob \notin DOMAIN progress_queues
           /\ TheJob \notin DOMAIN queue_refs

(***************************************************************************)
(* SpecAgent: ReActAgent.run.  One action per await point: each request of *)
(* _call_llm_with_retry, the handling of its result, each tool execution.  *)
(***************************************************************************)
agentCfg == <<tool_specs, disable_tools, max_steps, max_tool_messages, scenario>>
callLocals == <<attempt, delay, use_tools, sleeps, lastError>>

\* Mutant: the fallback is sent the whole conversation.
CallMessages_conversation == messages

\* The messages passed to the current _call_llm_with_retry.
CallMessages ==
    IF aSite = "fallback"
    THEN <<Msg("system", messages[1].content, <<>>, 0),
           Msg("user", messages[2].content, <<>>, 0)>>
    ELSE messages

\* Entry of _call_llm_with_retry.
BeginCall(tools) ==
    /\ attempt' = 0
    /\ delay' = INITIAL_RETRY_DELAY
    /\ use_tools' = tools
    /\ sleeps' = <<>>
    /\ lastError' = NoError
    /\ aPc' = "call"

\* What the endpoint may answer: tool calls only to a request carrying
\* tools, and only in the "rounds" scenario.
EndpointResponses(withTools) ==
    IF withTools /\ scenario = "rounds"
    THEN TextResponses \cup ToolResponses(nextId)
    ELSE TextResponses

\* Whether the endpoint may answer the next request with an exception.
MayFail == scenario = "retries" \/ nFailures < MaxFailures

\* return await self._create_completion(...)
Succeed(r) ==
    /\ completion' = r
    /\ nextId' = nextId + Len(r.tool_calls)
    /\ emptyOnly' = (emptyOnly /\ r = EmptyResponse)
    /\ lastError' = NoError
    /\ aPc' = "got"
    /\ UNCHANGED <<attempt, delay, sleeps>>

\* Mutant: the backoff delay is not doubled between attempts.
Backoff_constant(e) ==
    /\ lastError' = e.class
    /\ IF e.class \in {"conn", "rate", "status429"} /\ attempt < MAX_RETRIES - 1
       THEN /\ sleeps' = Append(sleeps, delay)
            /\ delay' = delay
            /\ attempt' = attempt + 1
            /\ aPc' = "call"
            /\ UNCHANGED <<completion, nextId, emptyOnly>>
       ELSE /\ completion' = NoCompletion
            /\ aPc' = "got"
            /\ UNCHANGED <<attempt, delay, sleeps, nextId, emptyOnly>>

\* Mutant: one attempt more than MAX_RETRIES.
Backoff_extra(e) ==
    /\ lastError' = e.class
    /\ IF e.class \in {"conn", "rate", "status429"} /\ attempt < MAX_RETRIES
       THEN /\ sleeps' = Append(sleeps, delay)
            /\ delay' = delay * 2
            /\ attempt' = attempt + 1
            /\ aPc' = "call"
            /\ UNCHANGED <<completion, nextId, emptyOnly>>
       ELSE /\ completion' = NoCompletion
            /\ aPc' = "got"
            /\ UNCHANGED <<attempt, delay, sleeps, nextId, emptyOnly>>

\* The except clauses of _call_llm_with_retry: connection and rate-limit
\* errors sleep and retry while attempts remain; everything else, and the
\* last attempt, returns None.
Backoff(e) ==
    /\ lastError' = e.class
    /\ IF e.class \in {"conn", "rate", "status429"} /\ attempt < MAX_RETRIES - 1
       THEN /\ sleeps' = Append(sleeps, delay)
            /\ delay' = delay * 2
            /\ attempt' = attempt + 1
            /\ aPc' = "call"
            /\ UNCHANGED <<completion, nextId, emptyOnly>>
       ELSE /\ completion' = NoCompletion
            /\ aPc' = "got"
            /\ UNCHANGED <<attempt, delay, sleeps, nextId, emptyOnly>>

\* run(): a new conversation; without usable tools a single completion.
AgentRun ==
    /\ aPc \in {"idle", "done"}
    /\ messages' = <<SystemMsg, UserMsg>>
    /\ aSite' = IF should_use_tools THEN "loop" ELSE "single"
    /\ step' = 0
    /\ BeginCall(should_use_tools)
    /\ completion' = NoCompletion
    /\ pendingCalls' = <<>>
    /\ tool_messages' = <<>>
    /\ nextId' = 1
    /\ toolRaised' = FALSE
    /\ retriedToolless' = FALSE
    /\ nFallback' = 0
    /\ lastRequest' = NoRequest
    /\ nRequests' = 0
    /\ nFailures' = 0
    /\ aResult' = NoResult
    /\ emptyOnly' = TRUE
    /\ UNCHANGED <<agentCfg, force_disable_tools, nonAgentVars>>

\* One attempt of _call_llm_with_retry: the request is sent; the endpoint
\* answers with a completion or an exception.
AgentAttempt ==
    /\ aPc = "call"
    /\ lastRequest' = [messages |-> CallMessages, tools |-> use_tools /\ tool_specs]
    /\ nRequests' = nRequests + 1
    /\ nFallback' = IF aSite = "fallback" THEN nFallback + 1 ELSE nFallback
    /\ \/ /\ \E r \in EndpointResponses(use_tools /\ tool_specs) : Succeed(r)
          /\ UNCHANGED <<use_tools, force_disable_tools, nFailures>>
       \/ /\ MayFail
          /\ nFailures' = nFailures + 1
          /\ \E e \in EndpointErrors :
                IF use_tools /\ is_tooling_incompatibility_error(e)
                THEN /\ force_disable_tools' = TRUE
                     /\ use_tools' = FALSE
                     /\ lastError' = e.class
                     /\ aPc' = "toolless"
                     /\ UNCHANGED <<attempt, delay, sleeps, completion, nextId,
                                    emptyOnly>>
                ELSE /\ Backoff(e)
                     /\ UNCHANGED <<use_tools, force_disable_tools>>
    /\ UNCHANGED <<agentCfg, aSite, messages, step, pendingCalls, tool_messages,
                   toolRaised, retriedToolless, aResult, nonAgentVars>>

\* The same attempt, after a tooling incompatibility: the request is sent
\* again without tools; an exception of this request reaches the outer
\* except clauses.
AgentToollessRetry ==
    /\ aPc = "toolless"
    /\ lastRequest' = [messages |-> CallMessages, tools |-> FALSE]
    /\ retriedToolless' = TRUE
    /\ nRequests' = nRequests + 1
    /\ nFallback' = IF aSite = "fallback" THEN nFallback + 1 ELSE nFallback
    /\ \/ /\ \E r \in EndpointResponses(FALSE) : Succeed(r)
          /\ UNCHANGED nFailures
       \/ /\ MayFail
          /\ nFailures' = nFailures + 1
          /\ \E e \in EndpointErrors : Backoff(e)
    /\ UNCHANGED <<agentCfg, force_disable_tools, use_tools, aSite, messages, step,
                   pendingCalls, tool_messages, toolRaised, aResult, nonAgentVars>>

\* _call_llm_with_retry has returned and its result has been looked at: its
\* locals are gone.
EndCall ==
    /\ attempt' = 0
    /\ delay' = INITIAL_RETRY_DELAY
    /\ use_tools' = FALSE
    /\ sleeps' = <<>>
    /\ lastError' = NoError

Return(text) ==
    /\ aResult' = Returned(text)
    /\ aPc' = "done"
    /\ EndCall
    /\ UNCHANGED <<force_disable_tools, aSite>>

\* The final fallback: the original prompt, tools forcibly disabled.
StartFallback ==
    /\ aSite' = "fallback"
    /\ force_disable_tools' = TRUE
    /\ BeginCall(FALSE)
    /\ UNCHANGED aResult

\* The last assistant message with content, as run() scans for it.
LastAssistantContent(msgs) ==
    LET idx == {i \in 1..Len(msgs) : msgs[i].role = "assistant" /\ msgs[i].content # ""}
    IN  IF idx = {} THEN ""
        ELSE Strip(msgs[CHOOSE i \in idx : \A j \in idx : j <= i].content)

\* run() with tools disabled: the single completion is returned.
AgentHandleSingle ==
    /\ aPc = "got"
    /\ aSite = "single"
    /\ IF completion.kind = "none"
       THEN Return("")
       ELSE Return(extract_content_from_completion(completion))
    /\ UNCHANGED <<agentCfg, messages, step, completion, pendingCalls, tool_messages,
                   nextId, toolRaised, retriedToolless, nFallback, lastRequest, nRequests, nFailures, emptyOnly, nonAgentVars>>

\* run(): the model answered with neither tool calls nor text: the loop is
\* left (break) for the final fallback.
LoopAfterEmpty ==
    /\ StartFallback
    /\ UNCHANGED step

\* run(), one loop iteration after the completion has arrived.
AgentHandleLoop ==
    /\ aPc = "got"
    /\ aSite = "loop"
    /\ IF completion.kind = "none"
       THEN /\ StartFallback
            /\ UNCHANGED <<messages, pendingCalls, step>>
       ELSE IF completion.tool_calls # <<>>
       THEN /\ messages' = Append(messages, message_to_dict(completion))
            /\ pendingCalls' = completion.tool_calls
            /\ aPc' = "tools"
            /\ EndCall
            /\ UNCHANGED <<force_disable_tools, aSite, aResult, step>>
       ELSE LET c1 == extract_content_from_message(completion)
                content == IF c1 # "" THEN c1
                           ELSE extract_content_from_completion(completion)
            IN  IF content # ""
                THEN /\ Return(content)
                     /\ UNCHANGED <<messages, pendingCalls, step>>
                ELSE /\ LoopAfterEmpty
                     /\ UNCHANGED <<messages, pendingCalls>>
    /\ tool_messages' = <<>>
    /\ UNCHANGED <<agentCfg, completion, nextId, toolRaised, retriedToolless, nFallback, lastRequest, nRequests,
                   nFailures, emptyOnly, nonAgentVars>>

\* What _run_single_tool returns for one call.
ToolOutcomes == {"ok", "raise", "unknown"}
run_single_tool(outcome) ==
    CASE outcome = "ok" -> "result"
      [] outcome = "raise" -> "Tool execution error"
      [] outcome = "unknown" -> "Unknown tool"

\* Mutant: the round's tool messages are appended in reverse order.
AfterToolRound_reversed(results) ==
    LET rev == [i \in 1..Len(results) |-> results[Len(results) + 1 - i]]
    IN  IF step + 1 < max_steps
        THEN /\ messages' = trim_tool_messages(messages \o rev, max_tool_messages)
             /\ step' = step + 1
             /\ BeginCall(should_use_tools)
             /\ UNCHANGED <<aSite, force_disable_tools, aResult>>
        ELSE /\ messages' = messages \o rev
             /\ StartFallback
             /\ UNCHANGED step

\* The round's tool messages are appended; the next iteration starts with
\* the trimming, or the loop is exhausted.
AfterToolRound(results) ==
    IF step + 1 < max_steps
    THEN /\ messages' = trim_tool_messages(messages \o results, max_tool_messages)
         /\ step' = step + 1
         /\ BeginCall(should_use_tools)
         /\ UNCHANGED <<aSite, force_disable_tools, aResult>>
    ELSE /\ messages' = messages \o results
         /\ StartFallback
         /\ UNCHANGED step

\* _execute_tool_calls: the next requested tool is executed and its result
\* becomes a tool message; after the last one the loop continues.  The
\* model lets the first tool call of a run fail; the later ones succeed.
AgentRunTool ==
    /\ aPc = "tools"
    /\ pendingCalls # <<>>
    /\ \E outcome \in ToolOutcomes :
          /\ outcome # "ok" => Head(pendingCalls) = 1
          /\ toolRaised' = (toolRaised \/ outcome = "raise")
          /\ LET tc == Head(pendingCalls)
                 results == Append(tool_messages,
                                   Msg("tool", run_single_tool(outcome), <<>>, tc))
             IN  /\ pendingCalls' = Tail(pendingCalls)
                 /\ IF Tail(pendingCalls) = <<>>
                    THEN /\ AfterToolRound(results)
                         /\ tool_messages' = <<>>
                    ELSE /\ tool_messages' = results
                         /\ UNCHANGED <<messages, step, callLocals, aPc, aSite,
                                        force_disable_tools, aResult>>
    /\ UNCHANGED <<agentCfg, completion, nextId, retriedToolless, nFallback, lastRequest, nRequests,
                   nFailures, emptyOnly, nonAgentVars>>

\* run(), after the fallback completion: its content, else the last
\* assistant content of the conversation, else "".
AgentHandleFallback ==
    /\ aPc = "got"
    /\ aSite = "fallback"
    /\ IF completion.kind # "none" /\ extract_content_from_completion(completion) # ""
       THEN Return(extract_content_from_completion(completion))
       ELSE Return(LastAssistantContent(messages))
    /\ UNCHANGED <<agentCfg, messages, step, completion, pendingCalls, tool_messages,
                   nextId, toolRaised, retriedToolless, nFallback, lastRequest, nRequests, nFailures, emptyOnly, nonAgentVars>>

NextAgent ==
    \/ AgentRun
    \/ AgentAttempt
    \/ AgentToollessRetry
    \/ AgentHandleSingle
    \/ AgentHandleLoop
    \/ AgentRunTool
    \/ AgentHandleFallback

InitSpecAgent ==
    /\ InitAgent
    /\ service = "translation"
    /\ ProgressIdle
    /\ ChatOff
    /\ DeltaOff
    /\ GroupOff

SpecAgent == InitSpecAgent /\ [][NextAgent]_vars

(***************************************************************************)
(* SpecChat: ChatService.stream_response.  One action per request to the   *)
(* endpoint and per tool execution; what follows a `break` (the commit) or *)
(* an exception (the rollback) belongs to the action that causes it.       *)
(***************************************************************************)
\* Mutant: the exception handler yields the error without rolling back.
Fail_norollback(evs, message) ==
    /\ events' = events \o evs \o <<ErrorEvent(message)>>
    /\ chPc' = "done"
    /\ UNCHANGED <<round_num, full_response, committed, rolledBack>>

\* except ToolExecutionError / except Exception: rollback, then the error
\* event; evs are the events yielded before the exception.
Fail(evs, message) ==
    /\ rolledBack' = TRUE
    /\ events' = events \o evs \o <<ErrorEvent(message)>>
    /\ chPc' = "done"
    /\ UNCHANGED <<round_num, full_response, committed>>

\* Mutant: the final text is stored without its events being yielded.
Persist_silent(evs, text) ==
    /\ full_response' = text
    /\ committed' = Commit(text)
    /\ chPc' = "done"
    /\ UNCHANGED <<round_num, rolledBack, events>>

\* Mutant: the stored text is everything streamed to the client, the tokens
\* of earlier rounds and of a failed request included.
Persist_joined(evs, text) ==
    /\ full_response' = JoinContents(SelectSeq(events \o evs, LAMBDA e : e.type = "token"))
    /\ committed' = Commit(full_response')
    /\ events' = events \o evs
    /\ chPc' = "done"
    /\ UNCHANGED <<round_num, rolledBack>>

\* After the loop: the assistant message is added and committed.
Persist(evs, text) ==
    /\ full_response' = text
    /\ committed' = Commit(text)
    /\ events' = events \o evs
    /\ chPc' = "done"
    /\ UNCHANGED <<round_num, rolledBack>>

\* Mutant: the loop runs one round more.
NextRound_extra(evs) ==
    IF round_num + 1 <= max_tool_rounds
    THEN /\ round_num' = round_num + 1
         /\ chPc' = "request"
         /\ events' = events \o evs
         /\ UNCHANGED <<full_response, committed, rolledBack>>
    ELSE Fail(evs, ExceededRounds)

\* `continue`: the next round, or the else clause of the for loop.
NextRound(evs) ==
    IF round_num + 1 < max_tool_rounds
    THEN /\ round_num' = round_num + 1
         /\ chPc' = "request"
         /\ events' = events \o evs
         /\ UNCHANGED <<full_response, committed, rolledBack>>
    ELSE Fail(evs, ExceededRounds)

\* Mutant: the corrective retries are not counted.
EmptyRetryAllowed_always == TRUE

\* if empty_content_retries < self.MAX_EMPTY_CONTENT_RETRIES
EmptyRetryAllowed == empty_content_retries < MAX_EMPTY_CONTENT_RETRIES

\* The round after its stream: content is the joined cleaned tokens, rb the
\* reasoning buffer, calls the assembled tool calls, evs the events the
\* stream yielded.
HandleRound(content, rb, calls, evs) ==
    IF calls # <<>>
    THEN /\ openai_messages' = Append(openai_messages,
                Msg("assistant", content, [i \in 1..Len(calls) |-> calls[i].id], 0))
         /\ chPending' = calls
         /\ reasoning_buffer' = rb
         /\ chPc' = "tools"
         /\ events' = events \o evs
         /\ UNCHANGED <<round_num, full_response, committed, rolledBack,
                        empty_content_retries>>
    ELSE IF content = "" /\ rb = Unbound
    THEN \* reading the unassigned local raises UnboundLocalError
         /\ Fail(evs, "UnboundLocalError")
         /\ UNCHANGED <<openai_messages, chPending, reasoning_buffer,
                        empty_content_retries>>
    ELSE LET fromReasoning == content = "" /\ rb # ""
             text == IF fromReasoning THEN extract_from_reasoning(rb) ELSE content
             evs2 == IF fromReasoning /\ text # ""
                     THEN Append(evs, TokenEvent(text)) ELSE evs
         IN  IF Strip(text) # ""
             THEN /\ Persist(evs2, text)
                  /\ reasoning_buffer' = rb
                  /\ UNCHANGED <<openai_messages, chPending, empty_content_retries>>
             ELSE IF EmptyRetryAllowed
             THEN /\ empty_content_retries' = empty_content_retries + 1
                  /\ openai_messages' = Append(openai_messages, RetryPrompt)
                  /\ reasoning_buffer' = ""
                  /\ NextRound(evs2)
                  /\ UNCHANGED chPending
             ELSE LET fallback == IF used_tools
                                  THEN fallback_from_tools(openai_messages, "empty")
                                  ELSE GenericFallback
                  IN  /\ Persist(Append(evs2, TokenEvent(fallback)), fallback)
                      /\ reasoning_buffer' = rb
                      /\ UNCHANGED <<openai_messages, chPending,
                                     empty_content_retries>>

\* stream_response up to the loop: the early returns (no API key, no
\* thread, no user message, no project), or the initial conversation.
ChatStart ==
    /\ chPc = "idle"
    /\ \/ /\ events' = <<ErrorEvent("precondition")>>
          /\ chPc' = "done"
          /\ UNCHANGED <<openai_messages, round_num, full_response, committed,
                         rolledBack>>
       \/ /\ \E signal \in BOOLEAN :
                openai_messages' = <<SystemMsg, UserMsg>>
                                   \o (IF signal THEN <<SignalInjection>> ELSE <<>>)
          /\ IF max_tool_rounds = 0
             THEN Fail(<<>>, ExceededRounds)
             ELSE /\ chPc' = "request"
                  /\ UNCHANGED <<round_num, events, full_response, committed,
                                 rolledBack>>
    /\ UNCHANGED <<max_tool_rounds, chToolFailed, chShape, empty_content_retries, used_tools,
                   reasoning_buffer, chPending, chNextId, chLastRequest, chRequests,
                   chRejections, chEmptyOnly, nonChatVars>>

\* The shape of the responses after stream s: tool rounds, then empty
\* streams, or anything else.
NextShape(s) ==
    CASE s = EmptyStream /\ chShape \in {"tools", "empty"} -> "empty"
      [] s.calls # <<>> /\ chShape = "tools" -> "tools"
      [] OTHER -> "other"

\* One round's request, with tools: the stream is read to its end, or
\* raise_for_status raises, or the connection fails before or in the stream.
ChatRequest ==
    /\ chPc = "request"
    /\ chLastRequest' = [messages |-> openai_messages, tools |-> TRUE]
    /\ chRequests' = chRequests + 1
    /\ \/ \E s \in TextStreams \cup ToolStreams(chNextId) :
             LET cleaned == strip_thinking(s.content)
                 evs == IF cleaned # "" THEN <<TokenEvent(cleaned)>> ELSE <<>>
             IN  /\ used_tools' = (used_tools \/ s.calls # <<>>)
                 /\ chNextId' = chNextId + Len(s.calls)
                 /\ HandleRound(cleaned, s.reasoning, s.calls, evs)
                 /\ chEmptyOnly' = (chEmptyOnly /\ s = EmptyStream)
                 /\ chShape' = NextShape(s)
                 /\ UNCHANGED chRejections
       \/ \E status \in HttpStatuses :
             IF status \in {400, 422}
             THEN /\ chRejections < MaxFailures
                  /\ chShape' = "other"
                  /\ chRejections' = chRejections + 1
                  /\ chEmptyOnly' = FALSE
                  /\ chPc' = "retry"
                  /\ UNCHANGED <<openai_messages, round_num, empty_content_retries,
                                 used_tools, full_response, reasoning_buffer,
                                 chPending, chNextId, events, committed, rolledBack>>
             ELSE LET text == fallback_from_tools(openai_messages,
                                                  http_error_detail(status))
                  IN  /\ Persist(<<TokenEvent(text)>>, text)
                      /\ chEmptyOnly' = FALSE
                      /\ chShape' = "other"
                      /\ UNCHANGED <<openai_messages, empty_content_retries,
                                     used_tools, reasoning_buffer, chPending,
                                     chNextId, chRejections>>
       \/ \E tok \in {"", "partial"}, sawTool \in BOOLEAN :
             LET text == fallback_from_tools(openai_messages, "connection")
                 evs == IF tok # "" THEN <<TokenEvent(tok)>> ELSE <<>>
             IN  /\ used_tools' = (used_tools \/ sawTool)
                 /\ chShape' = "other"
                 /\ chEmptyOnly' = FALSE
                 /\ Persist(Append(evs, TokenEvent(text)), text)
                 /\ UNCHANGED <<openai_messages, empty_content_retries,
                                reasoning_buffer, chPending, chNextId, chRejections>>
    /\ UNCHANGED <<max_tool_rounds, chToolFailed, nonChatVars>>

\* The same round after HTTP 400 or 422: the request without tools; only
\* content is read, and an exception leaves stream_response through its
\* outer handler.
ChatToollessRetry ==
    /\ chPc = "retry"
    /\ chLastRequest' = [messages |-> openai_messages, tools |-> FALSE]
    /\ chRequests' = chRequests + 1
    /\ \/ \E c \in ChatContents :
             LET cleaned == strip_thinking(c)
                 evs == IF cleaned # "" THEN <<TokenEvent(cleaned)>> ELSE <<>>
             IN  /\ HandleRound(cleaned, reasoning_buffer, <<>>, evs)
                 /\ chShape' = IF Strip(cleaned) = "" THEN "retried_empty" ELSE "other"
       \/ \E tok \in {"", "partial"} :
             /\ Fail(IF tok # "" THEN <<TokenEvent(tok)>> ELSE <<>>, "request_failed")
             /\ chShape' = "other"
             /\ UNCHANGED <<openai_messages, chPending, reasoning_buffer,
                            empty_content_retries>>
    /\ UNCHANGED <<max_tool_rounds, chToolFailed, used_tools, chNextId, chRejections, chEmptyOnly,
                   nonChatVars>>

\* The message of the ToolExecutionError raised for a failing tool call.
ToolFailureMessage(kind) ==
    CASE kind = "unknown" -> "Unknown tool"
      [] kind = "noid" -> "Missing tool_call id"
      [] kind = "badargs" -> "Invalid tool arguments"
      [] OTHER -> "Tool failed"

\* The next tool call of the round: validated, executed, its result
\* appended as a tool message; after the last one the loop continues.
ChatRunTool ==
    /\ chPc = "tools"
    /\ LET tc == Head(chPending)
           calling == ToolCallEvent("calling")
           finished == ToolCallEvent("done")
           kind == CASE ~tc.name_ok -> "unknown"
                     [] tc.id = 0 -> "noid"
                     [] OTHER -> "badargs"
       IN  IF ~tc.name_ok \/ tc.id = 0 \/ ~tc.args_ok
           THEN /\ Fail(<<>>, ToolFailureMessage(kind))
                /\ chToolFailed' = kind
                /\ UNCHANGED <<openai_messages, chPending, reasoning_buffer>>
           ELSE \/ /\ Fail(<<calling>>, ToolFailureMessage("raised"))
                   /\ chToolFailed' = "raised"
                   /\ UNCHANGED <<openai_messages, chPending, reasoning_buffer>>
                \/ /\ openai_messages' =
                          Append(openai_messages, Msg("tool", "result", <<>>, tc.id))
                   /\ chPending' = Tail(chPending)
                   /\ UNCHANGED chToolFailed
                   /\ IF Tail(chPending) = <<>>
                      THEN /\ reasoning_buffer' = ""
                           /\ NextRound(<<calling, finished>>)
                      ELSE /\ events' = events \o <<calling, finished>>
                           /\ UNCHANGED <<chPc, round_num, reasoning_buffer,
                                          full_response, committed, rolledBack>>
    /\ UNCHANGED <<max_tool_rounds, empty_content_retries, used_tools, chNextId,
                   chLastRequest, chRequests, chRejections, chEmptyOnly, chShape,
                   nonChatVars>>

NextChat ==
    \/ ChatStart
    \/ ChatRequest
    \/ ChatToollessRetry
    \/ ChatRunTool

InitSpecChat ==
    /\ InitChat
    /\ service = "translation"
    /\ ProgressIdle
    /\ AgentOff
    /\ DeltaOff
    /\ GroupOff

SpecChat == InitSpecChat /\ [][NextChat]_vars

(***************************************************************************)
(* SpecLoops: either tool-calling loop, for what is claimed of both.       *)
(***************************************************************************)
InitSpecLoops == InitSpecAgent \/ InitSpecChat

NextLoops == NextAgent \/ NextChat

SpecLoops == InitSpecLoops /\ [][NextLoops]_vars

(***************************************************************************)
(* Claims about the tool-calling loops.                                    *)
(***************************************************************************)
CountRole(msgs, role) == Cardinality({i \in 1..Len(msgs) : msgs[i].role = role})

\* Every tool message answers a tool call of the nearest assistant message
\* before it.
ToolPairingOK(msgs) ==
    \A i \in 1..Len(msgs) :
        msgs[i].role = "tool" =>
            LET before == {j \in 1..(i - 1) : msgs[j].role = "assistant"}
            IN  /\ before # {}
                /\ LET j == CHOOSE x \in before : \A y \in before : y <= x
                   IN  \E k \in 1..Len(msgs[j].tool_calls) :
                          msgs[j].tool_calls[k] = msgs[i].tool_call_id

\* C1: in every message list ReActAgent.run sends to the endpoint (trimmed
\* lists included) and in every message list ChatService.stream_response
\* sends, each tool message carries the id of one of the tool calls of the
\* nearest assistant message before it.
C1_ToolCallPairing ==
    /\ ToolPairingOK(lastRequest.messages)
    /\ ToolPairingOK(chLastRequest.messages)

\* C1 witness: the agent has sent a list from which _trim_tool_messages
\* dropped tool messages, and which still holds some.
C1_Witness ==
    /\ CountRole(lastRequest.messages, "tool") > 0
    /\ CountRole(lastRequest.messages, "tool") < nextId - 1
    /\ aSite = "loop"

\* C2 (as claimed): when every tool-enabled request was answered with tool
\* calls, so that the run made max_steps tool rounds, run() ends by
\* signalling round exhaustion as a failure, not by returning an answer.
C2_ExhaustionSignalled ==
    (/\ aPc = "done"
     /\ nFailures = 0
     /\ CountRole(messages, "assistant") = max_steps)
        => aResult.kind = "exhausted"

\* C5 (as claimed): when every completion of a tools-enabled run was empty
\* (no content, no reasoning, no tool calls), run() returns the generic
\* fallback string after MAX_EMPTY_CONTENT_RETRIES + 1 requests plus the
\* final no-tools fallback request.
C5_EmptyContentRetries ==
    (/\ aPc = "done"
     /\ aSite # "single"
     /\ nFailures = 0
     /\ emptyOnly)
        => /\ aResult.text = GenericFallback
           /\ nRequests = MAX_EMPTY_CONTENT_RETRIES + 2

\* The run ended on its first completion, a text without tool calls.
FirstCompletionIsText ==
    /\ aPc = "done"
    /\ aSite \in {"single", "loop"}
    /\ step = 0
    /\ nFailures = 0
    /\ completion.kind = "resp"
    /\ completion.tool_calls = <<>>
    /\ Strip(completion.content) # ""

\* C10 (as claimed): when the first completion is non-empty text without
\* tool calls, run() returns exactly that text after exactly one request,
\* and the conversation then holds three messages: system, user, assistant.
C10_FirstAnswerThreeMessages ==
    FirstCompletionIsText
        => /\ aResult = Returned(completion.content)
           /\ nRequests = 1
           /\ Len(messages) = 3
           /\ messages[3].role = "assistant"

\* Every round of the finished stream returned tool calls, and every tool
\* call was executed to its result.
AllRoundsCalledTools ==
    /\ chPc = "done"
    /\ openai_messages # <<>>
    /\ CountRole(openai_messages, "assistant") = max_tool_rounds
    /\ CountRole(openai_messages, "tool") = chNextId - 1

LastEvent == events[Len(events)]

\* C3: when the endpoint returns tool calls in every round and all tools
\* succeed, stream_response sends exactly max_tool_rounds requests, its
\* last event is the error 'Exceeded maximum tool call rounds.', and no
\* assistant message is committed.
C3_RoundsExceeded ==
    AllRoundsCalledTools
        => /\ chRequests = max_tool_rounds
           /\ events # <<>>
           /\ LastEvent = ErrorEvent(ExceededRounds)
           /\ ~committed.done
           /\ rolledBack

\* C3 witness: a stream of MaxToolRounds tool rounds has ended.
C3_Witness ==
    /\ AllRoundsCalledTools
    /\ max_tool_rounds = MaxToolRounds
    /\ chRequests = MaxToolRounds

TokenEvents == SelectSeq(events, LAMBDA e : e.type = "token")
CorrectiveMessages == SelectSeq(openai_messages, LAMBDA m : m = RetryPrompt)

\* C4: when every request is answered by an empty stream (no content, no
\* reasoning, no tool calls) and max_tool_rounds exceeds
\* MAX_EMPTY_CONTENT_RETRIES, stream_response sends exactly
\* MAX_EMPTY_CONTENT_RETRIES + 1 requests, appends exactly
\* MAX_EMPTY_CONTENT_RETRIES corrective user messages, and ends by yielding
\* one non-empty fallback token whose text is committed as the assistant
\* message.
C4_EmptyContentFallback ==
    (/\ chPc = "done"
     /\ chRequests > 0
     /\ chEmptyOnly
     /\ max_tool_rounds > MAX_EMPTY_CONTENT_RETRIES)
        => /\ chRequests = MAX_EMPTY_CONTENT_RETRIES + 1
           /\ Len(CorrectiveMessages) = MAX_EMPTY_CONTENT_RETRIES
           /\ Len(TokenEvents) = 1
           /\ LastEvent.type = "token"
           /\ LastEvent.content # ""
           /\ committed = Commit(LastEvent.content)
           /\ ~rolledBack

\* C4 witness: three empty streams have ended in the committed fallback.
C4_Witness ==
    /\ chPc = "done"
    /\ chEmptyOnly
    /\ chRequests = MAX_EMPTY_CONTENT_RETRIES + 1
    /\ committed.done
    /\ max_tool_rounds > MAX_EMPTY_CONTENT_RETRIES

(***************************************************************************)
(* Claims about _call_llm_with_retry.                                      *)
(***************************************************************************)
\* The delays of k backoffs in a row: INITIAL_RETRY_DELAY, doubled each time.
BackoffDelays(k) == [i \in 1..k |-> INITIAL_RETRY_DELAY * 2^(i - 1)]

\* The current call is the first one of the run.
FirstCall == aSite \in {"single", "loop"} /\ step = 0

RetryableClasses == {"conn", "rate", "status429"}

\* C11: when the first k attempts of a call (k < MAX_RETRIES) fail with a
\* connection or rate-limit (429) error and attempt k+1 succeeds, the call
\* returns that completion after exactly k sleeps of 1s, 2s, 4s, ...: the
\* delay starts at INITIAL_RETRY_DELAY and doubles after each failure.
C11_ExponentialBackoff ==
    (aPc = "got" /\ completion.kind = "resp")
        => /\ attempt < MAX_RETRIES
           /\ sleeps = BackoffDelays(attempt)
           /\ (FirstCall /\ nRequests = attempt + 1) => nFailures = attempt

\* C11 witness: two failed attempts, then the third attempt succeeded.
C11_Witness ==
    /\ aPc = "got"
    /\ completion.kind = "resp"
    /\ FirstCall
    /\ nFailures = 2
    /\ nRequests = 3
    /\ sleeps = <<1, 2>>

\* C12: one call makes at most MAX_RETRIES attempts; when all of them fail
\* with connection or rate-limit errors it returns None without raising;
\* an HTTP error status other than 429 that is not handled as a tooling
\* incompatibility ends the call with None at once, with no sleep, no
\* further attempt and no exception.
C12_RetryCeiling ==
    /\ attempt < MAX_RETRIES
    /\ (aPc = "got" /\ lastError \in RetryableClasses)
          => /\ completion = NoCompletion
             /\ aResult = NoResult
             /\ attempt = MAX_RETRIES - 1
             /\ Len(sleeps) = MAX_RETRIES - 1
    /\ (lastError \in {"status4xx", "status500"} /\ aPc # "toolless")
          => /\ aPc = "got"
             /\ completion = NoCompletion
             /\ aResult = NoResult
             /\ Len(sleeps) = attempt

\* C12 witness: the first call of a run has failed MAX_RETRIES times with
\* retryable errors and has returned None.
C12_Witness ==
    /\ aPc = "got"
    /\ FirstCall
    /\ completion = NoCompletion
    /\ lastError \in RetryableClasses
    /\ nRequests = MAX_RETRIES
    /\ nFailures = MAX_RETRIES

(***************************************************************************)
(* SpecDelta: the deltas of one streamed tool call, received one by one.   *)
(***************************************************************************)
\* for tc in delta.get("tool_calls"): the arguments of the next delta.
ReceiveDelta ==
    /\ tcDeltas # <<>>
    /\ tcArguments' = merge_arguments(tcArguments, Head(tcDeltas))
    /\ tcDeltas' = Tail(tcDeltas)
    /\ tcReceived' = tcReceived + 1
    /\ UNCHANGED <<tcOriginal, tcDelivery, nonDeltaVars>>

NextDelta == ReceiveDelta

InitSpecDelta ==
    /\ InitDelta
    /\ service = "translation"
    /\ ProgressIdle
    /\ AgentOff
    /\ ChatOff
    /\ GroupOff

SpecDelta == InitSpecDelta /\ [][NextDelta]_vars

IsToolError(m) == m.role = "tool" /\ m.content = run_single_tool("raise")

\* C14 (as claimed): once a tool's execute has raised during run(), the run
\* is aborted with a run-level failure: no later request carries the error
\* to the model as a tool result, and the run does not end by returning.
C14_ToolFailureAborts ==
    toolRaised
        => /\ \A i \in 1..Len(lastRequest.messages) :
                 ~IsToolError(lastRequest.messages[i])
           /\ aPc = "done" => aResult.kind = "failed"

\* The tool messages of the chat conversation that answer call id.
AnsweredInChat(id) ==
    \E i \in 1..Len(openai_messages) :
        openai_messages[i].role = "tool" /\ openai_messages[i].tool_call_id = id

\* C15: once a requested tool of stream_response is unknown, has no call id,
\* has invalid arguments or raises, the stream is over: the failing call
\* and the calls after it stay unanswered, no request follows, the last
\* event is the error event with the failure message, the session is rolled
\* back and no assistant message is committed.
C15_ChatToolFailureEndsStream ==
    chToolFailed # "none"
        => /\ chPc = "done"
           /\ ~ENABLED NextChat
           /\ chPending # <<>>
           /\ \A i \in 1..Len(chPending) :
                  chPending[i].id # 0 => ~AnsweredInChat(chPending[i].id)
           /\ LastEvent = ErrorEvent(ToolFailureMessage(chToolFailed))
           /\ rolledBack
           /\ committed = NoCommit

\* A second tool call of a round raises after the first one was executed.
C15_Witness ==
    /\ chToolFailed = "raised"
    /\ Len(chPending) = 1
    /\ \E i \in 1..Len(openai_messages) : openai_messages[i].role = "tool"

(***************************************************************************)
(* Claims about the events of a stream.                                    *)
(***************************************************************************)
SaysSomething(e) == e.type \in {"token", "error"}

\* C16: a finished stream_response has yielded at least one event of type
\* token or error, whatever the endpoint, the transport and the tools did.
C16_NeverSilent ==
    chPc = "done" => \E i \in 1..Len(events) : SaysSomething(events[i])

\* A stream whose every round was empty ends with the fallback as its only
\* event.
C16_Witness ==
    /\ chPc = "done"
    /\ chRequests = MAX_EMPTY_CONTENT_RETRIES + 1
    /\ chEmptyOnly
    /\ Len(events) = 1
    /\ events[1] = TokenEvent(GenericFallback)

(***************************************************************************)
(* Claims about the tool specifications of the requests.                   *)
(***************************************************************************)
\* stream_response has sent the toolless retry of a rejected request.
ChatRetriedWithoutTools == chRejections > 0 /\ chPc # "retry"

\* The agent's half of C17: _force_disable_tools keeps the tools off.
AgentToolsStayOff == retriedToolless => ~lastRequest.tools

\* C17 (as claimed): once a tool-bearing request was rejected and retried
\* without tools, no later request of the run carries tool specifications,
\* in ReActAgent.run and in ChatService.stream_response.
C17_ToolsStayOff ==
    /\ AgentToolsStayOff
    /\ ChatRetriedWithoutTools => ~chLastRequest.tools

(***************************************************************************)
(* Claims about the two kinds of exhaustion.                               *)
(***************************************************************************)
\* The stream has ended after tool rounds followed by empty streams only.
EndedOnEmptyContent == chPc = "done" /\ used_tools /\ chShape = "empty"

\* C18 (as claimed): a stream in which the model, after tool rounds below
\* max_tool_rounds, returns only empty content without tool calls ends with
\* the degraded answer built from the tool results as its last event and as
\* the committed message, never with the error of exceeded rounds.
C18_EmptyExhaustionDistinct ==
    EndedOnEmptyContent
        => /\ LastEvent = TokenEvent(fallback_from_tools(openai_messages, "empty"))
           /\ committed = Commit(fallback_from_tools(openai_messages, "empty"))

(***************************************************************************)
(* Claims about text that accompanies tool calls.                          *)
(***************************************************************************)
\* The texts that arrived in completions which also carried tool calls:
\* the contents of the conversation's assistant messages with tool_calls.
ToolRoundTexts ==
    {Strip(messages[i].content) :
        i \in {j \in 1..Len(messages) :
                  /\ messages[j].role = "assistant"
                  /\ messages[j].tool_calls # <<>>
                  /\ messages[j].content # ""}}

\* C19 (as claimed): run() never returns text that arrived in a completion
\* which also carried tool calls.
C19_ToolRoundTextNotReturned ==
    (aPc = "done" /\ aResult.kind = "returned") => aResult.text \notin ToolRoundTexts

(***************************************************************************)
(* Claims about the order of tool executions.                              *)
(***************************************************************************)
\* The index of the last assistant message with tool calls, or 0.
LastToolRound(msgs) ==
    LET idx == {i \in 1..Len(msgs) :
                   msgs[i].role = "assistant" /\ msgs[i].tool_calls # <<>>}
    IN  IF idx = {} THEN 0 ELSE CHOOSE i \in idx : \A j \in idx : j <= i

\* The call ids that message requested, in request order.
Requested(msgs) == msgs[LastToolRound(msgs)].tool_calls

\* The call ids a list of tool messages answers, in list order.
AnswerIds(toolMsgs) == [i \in 1..Len(toolMsgs) |-> toolMsgs[i].tool_call_id]

\* The call ids answered in the conversation after that message.
Answers(msgs) ==
    AnswerIds(SelectSeq(SubSeq(msgs, LastToolRound(msgs) + 1, Len(msgs)),
                        LAMBDA m : m.role = "tool"))

IsSuffix(s, t) ==
    Len(s) <= Len(t) /\ s = SubSeq(t, Len(t) - Len(s) + 1, Len(t))

\* ReActAgent: within a round the results obtained so far answer a prefix
\* of the requested calls and the rest is pending in request order; after
\* the round the conversation holds them in that order, all of them unless
\* the trimming to max_tool_messages has dropped the oldest.
AgentOrderOK ==
    IF aPc = "tools"
    THEN AnswerIds(tool_messages) \o pendingCalls = Requested(messages)
    ELSE LastToolRound(messages) # 0
            => /\ IsSuffix(Answers(messages), Requested(messages))
               /\ \/ Answers(messages) = Requested(messages)
                  \/ CountRole(messages, "tool") = max_tool_messages

\* ChatService: the tool messages after the round's assistant message answer
\* a prefix of its calls in request order, and the unanswered calls are the
\* pending ones, in order.
ChatOrderOK ==
    LastToolRound(openai_messages) # 0
        => Answers(openai_messages) \o [i \in 1..Len(chPending) |-> chPending[i].id]
               = Requested(openai_messages)

\* C20: within one round the requested tools are executed one at a time in
\* request order, call i+1 only after the result of call i, and the tool
\* messages are appended in that order, exactly one per call.
C20_SequentialToolOrder == AgentOrderOK /\ ChatOrderOK

\* A round of two calls has been executed and appended.
C20_Witness ==
    /\ aPc = "call"
    /\ LastToolRound(messages) # 0
    /\ Len(Requested(messages)) = MaxCallsPerRound
    /\ Answers(messages) = Requested(messages)

(***************************************************************************)
(* Claims about the final fallback of ReActAgent.run.                      *)
(***************************************************************************)
\* The request of the fallback: the original prompt, no tools.
OriginalPrompt == [messages |-> <<SystemMsg, UserMsg>>, tools |-> FALSE]

\* C21: when the loop of run() ends without an answer, one further call of
\* the completion is made: every request it sends holds exactly the original
\* system and user message and no tool specifications, it sends one request,
\* and another only for a failure its retry policy retries.
C21_FallbackCall ==
    aSite = "fallback"
        => /\ nFallback > 0 => lastRequest = OriginalPrompt
           /\ aPc \in {"got", "done"} => nFallback >= 1
           /\ nFallback <= 1 + nFailures
           /\ nFallback <= MAX_RETRIES

\* The fallback has been sent after a round whose tool messages were trimmed.
C21_Witness ==
    /\ aPc = "done"
    /\ aSite = "fallback"
    /\ nFallback = 1
    /\ CountRole(messages, "tool") > 0
    /\ CountRole(messages, "tool") < nextId - 1

(***************************************************************************)
(* Claims about the trimming of tool messages.  Call ids are handed out in *)
(* increasing order, so the ids in a request tell which messages it kept.  *)
(***************************************************************************)
\* The call ids the assistant messages of a list request, in list order.
RECURSIVE RequestedIds(_)
RequestedIds(msgs) ==
    IF msgs = <<>> THEN <<>>
    ELSE (IF Head(msgs).role = "assistant" THEN Head(msgs).tool_calls ELSE <<>>)
             \o RequestedIds(Tail(msgs))

\* The call ids the tool messages of a list answer, in list order.
KeptIds(msgs) == AnswerIds(SelectSeq(msgs, LAMBDA m : m.role = "tool"))

\* The messages of a list that are not tool messages.
NonTool(msgs) == SelectSeq(msgs, IsNotToolMsg)

Min(a, b) == IF a <= b THEN a ELSE b

\* The last request was sent inside the loop of run().
LoopRequest == aSite = "loop" /\ lastRequest # NoRequest

\* C22: every request of the loop holds at most max_tool_messages tool
\* messages, they are the most recently appended ones, and every non-tool
\* message appended so far is present in its original order: the system
\* and user message, then the assistant message of each round.
C22_TrimKeepsRecent ==
    LoopRequest =>
        LET msgs == lastRequest.messages
            all == RequestedIds(msgs)
        IN  /\ Len(KeptIds(msgs)) = Min(Len(all), max_tool_messages)
            /\ IsSuffix(KeptIds(msgs), all)
            /\ all = [i \in 1..Len(all) |-> i]
            /\ SubSeq(NonTool(msgs), 1, 2) = <<SystemMsg, UserMsg>>
            /\ \A i \in 3..Len(NonTool(msgs)) :
                   /\ NonTool(msgs)[i].role = "assistant"
                   /\ NonTool(msgs)[i].tool_calls # <<>>

\* A request of the loop from which the trimming removed tool messages.
C22_Witness ==
    /\ LoopRequest
    /\ Len(RequestedIds(lastRequest.messages)) > max_tool_messages
    /\ Len(KeptIds(lastRequest.messages)) = max_tool_messages

\* Every tool call of every assistant message of a list has its tool message
\* later in the list.
ToolCallsAnswered(msgs) ==
    \A i \in 1..Len(msgs) :
        msgs[i].role = "assistant" =>
            \A k \in 1..Len(msgs[i].tool_calls) :
                \E j \in (i + 1)..Len(msgs) :
                    /\ msgs[j].role = "tool"
                    /\ msgs[j].tool_call_id = msgs[i].tool_calls[k]

\* C23 (as claimed): in every request ReActAgent sends, each tool call of
\* each assistant message has a tool message with its id later in the same
\* request; trimming leaves no tool calls that are re-sent without results.
C23_NoDetachedToolCalls == ToolCallsAnswered(lastRequest.messages)

(***************************************************************************)
(* Claims about the end of a progress stream.                              *)
(***************************************************************************)
\* A step in which consumer c emits [DONE].
EmitsDone(c) == cpc[c] = "streaming" /\ cpc'[c] = "done"

\* [DONE] is emitted only with the job terminal and the queue empty, and
\* together with the one release of the stream's reference.
DoneOnlyWhenDrained ==
    \A c \in Consumers :
        EmitsDone(c) => /\ jobStatus \in TerminalStatuses
                        /\ heap[cq[c]] = <<>>
                        /\ nRel' = nRel + 1

\* Every stream that has ended has released once, and no other has.
ReleasedOncePerStream ==
    nRel = Cardinality({c \in Consumers : cpc[c] \in {"done", "closed"}})

\* Consumer c is still streaming under a terminal status.  The status stays
\* terminal and a stream never resumes, so c leaves this condition at most
\* once, by ending.
StreamingAfterEnd(c) == cpc[c] = "streaming" /\ jobStatus \in TerminalStatuses

\* C24: once the job is terminal (the model's job publishes finitely many
\* events), every connected stream drains its queue, emits [DONE] and
\* releases its reference exactly once; unless the client disconnects it
\* never emits [DONE] while the job is not terminal or its queue holds events.
C24_StreamTerminates ==
    /\ [][DoneOnlyWhenDrained]_vars
    /\ []ReleasedOncePerStream
    /\ \A c \in Consumers : []<>~StreamingAfterEnd(c)

\* A stream has emitted [DONE] after the job's last event, having found its
\* queue empty.
C24_Witness ==
    /\ \E c \in Consumers : cpc[c] = "done"
    /\ jobPc = "finished"
    /\ published = MaxEvents
    /\ lastOp.op = "release"

(***************************************************************************)
(* C25: fan-out to simultaneous consumers.                                 *)
(***************************************************************************)
\* The numbers of the events waiting in the queue object consumer c reads.
Waiting(c) == {heap[cq[c]][i].n : i \in 1..Len(heap[cq[c]])}

\* Consumers b and c are both streaming, and event k was published while
\* both were subscribed.
PublishedToBoth(b, c, k) ==
    /\ b # c
    /\ cpc[b] = "streaming"
    /\ cpc[c] = "streaming"
    /\ k > cSince[b]
    /\ k > cSince[c]

\* C25 (as claimed): when two or more SSE consumers are subscribed to the same
\* job at the same time, every progress event published for the job and not
\* evicted by the drop-oldest policy is delivered to each of them: an event
\* that one of them has received, published while both were subscribed, has
\* been received by the other or is waiting in the other's queue.
C25_DeliveredToEach ==
    \A b \in Consumers : \A c \in Consumers : \A k \in cGot.got[b] :
        PublishedToBoth(b, c, k) => (k \in cGot.got[c] \/ k \in Waiting(c))

(***************************************************************************)
(* C26: HTTP 400/422 followed by an empty toolless retry.                  *)
(***************************************************************************)
\* The toolless retry of the rejected round has just completed with empty
\* content.
RejectedRoundCameBackEmpty == chShape = "retried_empty"

\* The empty-content retry policy: the corrective user message is appended
\* and another round is requested, or, the retries used up, the fallback
\* token is the last event and the stream is persisted.
CorrectiveRoundRequested ==
    /\ chPc = "request"
    /\ openai_messages # <<>>
    /\ openai_messages[Len(openai_messages)] = RetryPrompt
    /\ empty_content_retries \in 1..MAX_EMPTY_CONTENT_RETRIES

EndedWithFallbackToken ==
    /\ chPc = "done"
    /\ committed.done
    /\ empty_content_retries = MAX_EMPTY_CONTENT_RETRIES
    /\ events # <<>>
    /\ events[Len(events)] = TokenEvent(committed.text)

\* C26 (as claimed): when a tool-bearing request is rejected with HTTP 400 or
\* 422 and the toolless retry of that round completes with empty content, the
\* round is handled by the empty-content retry policy and not by an error
\* event, in the first round of the stream as in later ones.
C26_RejectedEmptyRoundRetried ==
    RejectedRoundCameBackEmpty => (CorrectiveRoundRequested \/ EndedWithFallbackToken)

(***************************************************************************)
(* C27: a run's tools-disabled decision and the next run.                  *)
(***************************************************************************)
\* run() has been called and has sent no request yet.
RunJustStarted == aPc = "call" /\ nRequests = 0 /\ nFallback = 0 /\ step = 0

\* C27 (as claimed): every call of run() on an agent constructed with tools
\* and disable_tools=False starts with tool specifications enabled, however
\* earlier runs of the same instance ended: it enters the tool loop, and its
\* first request carries the tools.
C27_RunStartsWithTools ==
    (tool_specs /\ ~disable_tools)
        => /\ RunJustStarted => (aSite = "loop" /\ use_tools)
           /\ nRequests = 1 => lastRequest.tools

(***************************************************************************)
(* C28: releases of consumers that subscribed before cleanup_progress.     *)
(***************************************************************************)
\* cleanup_progress has torn down the translation's queue at job end.
TornDown == service = "translation" /\ jobPc = "finished"

\* Consumer c holds the queue object the torn-down entry pointed to: it
\* subscribed before the teardown.  (Until cleanup_progress the handler's own
\* reference keeps the first queue object registered.)
SubscribedBeforeTeardown(c) == cq[c] = 1

\* Consumer c is streaming from a queue created after the teardown.
NewerSubscriber(c) == cpc[c] = "streaming" /\ cq[c] > 1

\* This step is the release_progress call of a consumer that subscribed
\* before the teardown, made while a newer queue is registered.
OldConsumerReleases(c) ==
    /\ TornDown
    /\ SubscribedBeforeTeardown(c)
    /\ cpc[c] = "streaming"
    /\ cpc'[c] # "streaming"
    /\ Registered(TheJob)
    /\ progress_queues[TheJob] # cq[c]

OldReleaseLeavesNewerQueue ==
    \A c \in Consumers :
        OldConsumerReleases(c)
            => progress_queues' = progress_queues /\ queue_refs' = queue_refs

\* An event of a later task has just been published: it is in the queue of
\* every newer subscriber.
LaterEventsReachNewer ==
    (TornDown /\ lastOp.op = "publish" /\ lastOp.data.type = "progress")
        => \A c \in Consumers :
               NewerSubscriber(c)
                   => \E i \in 1..Len(heap[cq[c]]) : heap[cq[c]][i] = lastOp.data

\* C28 (as claimed): after cleanup_progress has torn down a translation's
\* queue, the release_progress of a consumer that subscribed before the
\* teardown never decrements the reference count of, or removes, a queue a
\* newer subscriber created afterwards for the same id, and events published
\* later for that id still reach the newer subscriber.
C28_OldReleaseSparesNewQueue ==
    [][OldReleaseLeavesNewerQueue]_vars /\ []LaterEventsReachNewer

(***************************************************************************)
(* C29: the persisted text and the streamed tokens.                        *)
(***************************************************************************)
\* The stream finished and yielded no error event.
FinishedWithoutError ==
    /\ chPc = "done"
    /\ \A i \in 1..Len(events) : events[i].type # "error"

\* C29 (as claimed): on every stream that finishes without an error event,
\* the text persisted as the assistant ChatMessage equals the in-order
\* concatenation of the content of all token events yielded to the client.
C29_PersistedEqualsStreamed ==
    FinishedWithoutError
        => committed.done /\ committed.text = JoinContents(TokenEvents)

\* C29 (amended): on every stream that finishes without an error event, the
\* persisted text is the final answer alone: the text yielded last (the
\* content streamed by the round that ended the stream, the text extracted
\* from its reasoning, or the fallback token).  Tokens streamed by tool-call
\* rounds and tokens streamed before a request failed are shown to the
\* client and are not part of it.  (A round's streamed content is one token
\* event here.)
C29_PersistedIsFinalText ==
    FinishedWithoutError
        => /\ committed.done
           /\ committed.text = full_response
           /\ TokenEvents # <<>>
           /\ committed.text = TokenEvents[Len(TokenEvents)].content

\* A stream that streamed text along with a tool call, then the answer.
C29_Witness ==
    /\ FinishedWithoutError
    /\ used_tools
    /\ Len(TokenEvents) = 2
    /\ TokenEvents[1].content # ""
    /\ committed.text = "answer"
    /\ committed.text # JoinContents(TokenEvents)

(***************************************************************************)
(* SpecGroup: one TranslationGroup, the run_translation job that created   *)
(* it, the retry endpoint and the retry tasks it schedules.  Every task    *)
(* has its own database session; an action ends at a commit.              *)
(***************************************************************************)
SetTask(t, pc, row) == gTask' = [gTask EXCEPT ![t] = TaskState(pc, row)]

\* POST .../groups/{group_id}/retry on a failed or queued group: the row is
\* set to "queued" and committed, and a retry task is scheduled.
RetryTranslationGroup(t) ==
    /\ t \in RetryTasks
    /\ gTask[t].pc = "idle"
    /\ gRow.status \in {"failed", "queued"}
    /\ gRow' = [gRow EXCEPT !.status = "queued"]
    /\ SetTask(t, "scheduled", gTask[t])
    /\ UNCHANGED <<gStarted, nonGroupVars>>

\* The same request on a running group (409) or a succeeded one (400).
RetryTranslationGroupRefused ==
    /\ gRow.status \in {"running", "succeeded"}
    /\ \E t \in RetryTasks : gTask[t].pc = "idle"
    /\ UNCHANGED vars

\* retry_group up to its first commit: the row is loaded into the task's
\* session; a running group raises ValueError, any other is set to "queued".
RetryGroupLoad(t) ==
    /\ t \in RetryTasks
    /\ gTask[t].pc = "scheduled"
    /\ IF gRow.status = "running"
       THEN /\ SetTask(t, "raised", gRow)
            /\ UNCHANGED gRow
       ELSE /\ gRow' = [gRow EXCEPT !.status = "queued"]
            /\ SetTask(t, "loaded", gRow')
    /\ UNCHANGED <<gStarted, nonGroupVars>>

\* _translate_section: a group found "running" is set back to "queued"
\* before it is translated.
SectionRequeue ==
    /\ gTask[MainTask].pc = "loaded"
    /\ gRow.status = "running"
    /\ gRow' = [gRow EXCEPT !.status = "queued"]
    /\ SetTask(MainTask, "loaded", [gTask[MainTask] EXCEPT !.status = "queued"])
    /\ UNCHANGED <<gStarted, nonGroupVars>>

\* _translate_and_store_group: group.status = "running"; group.attempts += 1
\* on the session's object.  The value incremented is the one the session
\* holds, or the row's when the session reloads the object after a commit.
TranslateGroupBegin(t) ==
    /\ gTask[t].pc = "loaded"
    /\ \E base \in {gTask[t].attempts, gRow.attempts} :
           SetTask(t, "committing", [status |-> "running", attempts |-> base + 1])
    /\ gStarted' = gStarted + 1
    /\ UNCHANGED <<gRow, nonGroupVars>>

\* await self.db.commit(): the row takes the session's status and attempts.
TranslateGroupCommit(t) ==
    /\ gTask[t].pc = "committing"
    /\ gRow' = [status |-> gTask[t].status, attempts |-> gTask[t].attempts]
    /\ SetTask(t, "translating", gTask[t])
    /\ UNCHANGED <<gStarted, nonGroupVars>>

\* The translation returned or raised: the status is committed.
TranslateGroupEnd(t) ==
    /\ gTask[t].pc = "translating"
    /\ \E outcome \in {"succeeded", "failed"} :
          /\ gRow' = [gRow EXCEPT !.status = outcome]
          /\ SetTask(t, "done", [gTask[t] EXCEPT !.status = outcome])
    /\ UNCHANGED <<gStarted, nonGroupVars>>

NextGroup ==
    \/ \E t \in RetryTasks : RetryTranslationGroup(t)
    \/ RetryTranslationGroupRefused
    \/ \E t \in RetryTasks : RetryGroupLoad(t)
    \/ SectionRequeue
    \/ \E t \in GroupTasks : TranslateGroupBegin(t)
    \/ \E t \in GroupTasks : TranslateGroupCommit(t)
    \/ \E t \in GroupTasks : TranslateGroupEnd(t)

InitSpecGroup ==
    /\ InitGroup
    /\ service = "translation"
    /\ ProgressIdle
    /\ AgentOff
    /\ ChatOff
    /\ DeltaOff

SpecGroup == InitSpecGroup /\ [][NextGroup]_vars

(***************************************************************************)
(* C30: one translator per group.                                          *)
(***************************************************************************)
\* Task t is inside _translate_and_store_group.
Translating(t) == gTask[t].pc \in {"committing", "translating"}

\* C30 (as claimed): at most one task translates the group at any time,
\* whatever the interleaving of retry requests, retry tasks and the job, and
\* the attempts counter increases by exactly one per translation attempt:
\* with no commit pending it equals the number of attempts started.
C30_OneTranslatorPerGroup ==
    /\ Cardinality({t \in GroupTasks : Translating(t)}) <= 1
    /\ (\A t \in GroupTasks : gTask[t].pc # "committing") => gRow.attempts = gStarted

====
